---------------------------- MODULE Spec2Model ----------------------------
(***************************************************************************)
(* A model of the paper-trading engine (backend/live_bot.py), of the tick  *)
(* producer that drives it (backend/logger.py) and of the HTTP handlers    *)
(* that start and stop both (backend/main.py).                             *)
(*                                                                         *)
(* Money is kept in integer cents: a dollar amount x of the source is the  *)
(* integer 100 * x here, so  cost = contracts * price / 100  dollars is    *)
(* contracts * price  cents, exactly.  Fractions of the configuration are  *)
(* kept as integers too: position_size_pct and dca_max_total_risk_pct in   *)
(* percent, the time multipliers in tenths.  The source computes in        *)
(* binary floating point; the model computes the same expressions in exact *)
(* rational arithmetic.                                                    *)
(***************************************************************************)
EXTENDS Integers, Sequences, FiniteSets, TLC

(***************************************************************************)
(* Bounds of the model.                                                    *)
(***************************************************************************)
MaxTicks == 5        \* ticks the producer delivers in one behaviour
MaxStops == 2        \* stop() requests in one behaviour
MaxRestarts == 1     \* process restarts (engine resumed from storage)
MaxAsyncTicks == 4   \* ticks delivered when the coroutines interleave
MaxFailTicks == 4    \* ticks delivered when the store may fail
MaxWideTicks == 5    \* on_tick calls under SpecTicks
MaxEntryTicks == 4   \* on_tick calls under SpecEntry
MaxDcaTicks == 6     \* on_tick calls under SpecDca
MaxOpsTicks == 4     \* on_tick calls under SpecOps
MaxTopUps == 2       \* top_up calls in one behaviour
MaxFundsTicks == 6   \* on_tick calls under SpecFunds
MaxWindowTicks == 5  \* on_tick calls under SpecWindow
MaxMirrorTicks == 5  \* on_tick calls of each engine under SpecMirror
MaxFundCalls == 3    \* start, top-up and stop requests under SpecRegistry
MaxClockLen == 3     \* length of the clock texts drawn in full
MaxConfigUpdates == 1 \* update_config calls in one behaviour
MaxLoggers == 2      \* GameLogger objects created for the session
MaxEngines == 2      \* LivePaperBot objects created for the session
MaxRequests == 3     \* HTTP requests handled for the session
MaxLoggerTicks == 3  \* ticks one GameLogger produces

(***************************************************************************)
(* Program constants: the defaults of LivePaperBot.__init__.               *)
(***************************************************************************)
DefaultBankroll == 50000          \* bankroll = 500.0 dollars
MomentumThreshold == 8
InitialStop == 8
ProfitTarget == 15
BreakevenTrigger == 5
EarlyGameStopMult10 == 15         \* early_game_stop_multiplier = 1.5
LateGameStopMult10 == 7           \* late_game_stop_multiplier = 0.7
EarlyGameTargetMult10 == 13       \* early_game_target_multiplier = 1.3
LateGameTargetMult10 == 8         \* late_game_target_multiplier = 0.8
FavoriteFadeThreshold == 65
UnderdogSupportThreshold == 35
DcaMaxAdditions == 2
DcaTriggerCents == 5
DcaSizeMultNum == 3               \* dca_size_multiplier = 0.75 = 3 / 4
DcaSizeMultDen == 4
DcaMinTimeRemaining == 600
DcaMaxTotalRiskPct == 75          \* dca_max_total_risk_pct = 0.75
HistoryCap == 10                  \* price_history keeps the last 10 prices
UserStartBalance == 1000000       \* starting_balance = 10000.0 dollars

Max(a, b) == IF a >= b THEN a ELSE b
Min(a, b) == IF a <= b THEN a ELSE b

\* Not the code: rounding up.
TruncDivUp(n, d) == IF n >= 0 THEN (n + d - 1) \div d ELSE -((-n) \div d)

\* Python's int(x) of the rational n / d (d > 0): truncation toward zero.
TruncDiv(n, d) == IF n >= 0 THEN n \div d ELSE -((-n) \div d)

RECURSIVE Pow(_, _)
Pow(b, k) == IF k = 0 THEN 1 ELSE b * Pow(b, k - 1)

Last(s) == s[Len(s)]

(***************************************************************************)
(* Clock model.  A clock text is a sequence of one-character strings.      *)
(***************************************************************************)
Digits == {"0", "1", "2", "3", "4", "5", "6", "7", "8", "9"}

DigitVal(c) ==
    CASE c = "0" -> 0 [] c = "1" -> 1 [] c = "2" -> 2 [] c = "3" -> 3
      [] c = "4" -> 4 [] c = "5" -> 5 [] c = "6" -> 6 [] c = "7" -> 7
      [] c = "8" -> 8 [] c = "9" -> 9

\* str.strip(): leading and trailing blanks removed.
RECURSIVE StripLeft(_)
StripLeft(s) == IF s # <<>> /\ Head(s) = " " THEN StripLeft(Tail(s)) ELSE s

RECURSIVE StripRight(_)
StripRight(s) ==
    IF s # <<>> /\ Last(s) = " " THEN StripRight(SubSeq(s, 1, Len(s) - 1)) ELSE s

Strip(s) == StripRight(StripLeft(s))

\* Leading zeros removed.
RECURSIVE StripZeros(_)
StripZeros(s) == IF s # <<>> /\ Head(s) = "0" THEN StripZeros(Tail(s)) ELSE s

RECURSIVE DigitsVal(_, _)
DigitsVal(s, acc) ==
    IF s = <<>> THEN acc ELSE DigitsVal(Tail(s), 10 * acc + DigitVal(Head(s)))

\* An optional sign, then one or more digits.  The result is [ok |-> FALSE]
\* where Python raises ValueError.
SignedDigits(s) ==
    LET signed == s # <<>> /\ Head(s) \in {"-", "+"}
        body == IF signed THEN Tail(s) ELSE s
    IN  IF body = <<>> \/ \E i \in 1..Len(body) : body[i] \notin Digits
        THEN [ok |-> FALSE, val |-> 0]
        ELSE [ok |-> TRUE,
              val |-> IF signed /\ Head(s) = "-"
                      THEN -DigitsVal(body, 0) ELSE DigitsVal(body, 0)]

\* int(text): blanks around, an optional sign, then one or more digits.
ParseInt(text) == SignedDigits(Strip(text))

\* The place of the first c in s, 0 when there is none.
IndexOf(s, c) ==
    IF \E i \in 1..Len(s) : s[i] = c
    THEN CHOOSE i \in 1..Len(s) : s[i] = c /\ \A j \in 1..(i - 1) : s[j] # c
    ELSE 0

\* The largest value kept exactly; what is larger is kept as this.
Huge == 1000000000

\* int(float(text)): blanks around, an optional sign, then inf, infinity or nan
\* (int() raises on them), or digits with an optional fraction and an optional
\* exponent; the value is truncated toward zero.  A value of 10^309 or more
\* is inf as well.  Values above Huge are given as Huge.
ParseFloatInt(text) ==
    LET Magnitude(n, width, shift) ==
            IF n = 0 \/ width + shift <= 0 THEN 0
            ELSE IF width + shift > 9 THEN Huge
            ELSE IF shift >= 0 THEN n * Pow(10, shift)
            ELSE n \div Pow(10, -shift)
        Value(neg, wellformed, n, width, shift) ==
            IF ~wellformed \/ (n # 0 /\ width + shift > 309)
            THEN [ok |-> FALSE, val |-> 0]
            ELSE [ok |-> TRUE,
                  val |-> (IF neg THEN -1 ELSE 1) * Magnitude(n, width, shift)]
        Significant(neg, wellformed, digits, shift) ==
            Value(neg, wellformed, DigitsVal(digits, 0), Len(digits), shift)
        OfDigits(neg, named, digits, fplen, expo) ==
            Significant(neg,
                        /\ ~named
                        /\ digits # <<>>
                        /\ \A i \in 1..Len(digits) : digits[i] \in Digits
                        /\ expo.ok,
                        StripZeros(digits), expo.val - fplen)
        OfMantissa(neg, named, mant, dot, expo) ==
            IF dot = 0
            THEN OfDigits(neg, named, mant, 0, expo)
            ELSE OfDigits(neg, named,
                          SubSeq(mant, 1, dot - 1) \o SubSeq(mant, dot + 1, Len(mant)),
                          Len(mant) - dot, expo)
        OfParts(neg, named, mant, expo) ==
            OfMantissa(neg, named, mant, IndexOf(mant, "."), expo)
        OfBody(neg, body, epos) ==
            IF epos = 0
            THEN OfParts(neg, body \in {<<"i", "n", "f">>, <<"n", "a", "n">>,
                                        <<"i", "n", "f", "i", "n", "i", "t", "y">>},
                         body, [ok |-> TRUE, val |-> 0])
            ELSE OfParts(neg, FALSE, SubSeq(body, 1, epos - 1),
                         SignedDigits(SubSeq(body, epos + 1, Len(body))))
        OfSigned(neg, body) == OfBody(neg, body, IndexOf(body, "e"))
        OfText(s) ==
            IF s # <<>> /\ Head(s) \in {"-", "+"}
            THEN OfSigned(Head(s) = "-", Tail(s))
            ELSE OfSigned(FALSE, s)
    IN  OfText(Strip(text))

HasColon(s) == \E i \in 1..Len(s) : s[i] = ":"

\* The first two fields of text.split(':'), for a text that holds a colon.
FirstColon(s) == CHOOSE i \in 1..Len(s) : s[i] = ":" /\ \A j \in 1..(i - 1) : s[j] # ":"
FieldOne(s) == SubSeq(s, 1, FirstColon(s) - 1)
AfterColon(s) == SubSeq(s, FirstColon(s) + 1, Len(s))
FieldTwo(s) ==
    LET r == AfterColon(s)
    IN  IF HasColon(r) THEN FieldOne(r) ELSE r

\* clock_seconds when every text is read as whole seconds.
ClockSecondsBare(clock) ==
    LET n == ParseFloatInt(clock)
    IN  IF n.ok THEN n.val ELSE 900

\* The try block of _calculate_time_remaining: clock_seconds, 900 on any error.
\* A text with a colon is minutes and seconds; any other is seconds.
ClockSeconds(clock) ==
    LET MinSec(mins, secs) ==
            IF mins.ok /\ secs.ok THEN mins.val * 60 + secs.val ELSE 900
        Seconds(n) == IF n.ok THEN n.val ELSE 900
    IN  IF HasColon(clock)
        THEN MinSec(ParseInt(FieldOne(Strip(clock))), ParseInt(FieldTwo(Strip(clock))))
        ELSE Seconds(ParseFloatInt(clock))

\* _calculate_time_remaining without the final clamp.
CalculateTimeRemainingUnclamped(quarter, clock) ==
    IF quarter = 0 THEN 3600
    ELSE IF quarter >= 5 THEN 0
    ELSE (4 - quarter) * 900 + ClockSeconds(clock)

\* LivePaperBot._calculate_time_remaining
CalculateTimeRemaining(quarter, clock) ==
    IF quarter = 0 THEN 3600
    ELSE IF quarter >= 5 THEN 0
    ELSE Max(0, Min(3600, (4 - quarter) * 900 + ClockSeconds(clock)))

\* Not the code: halftime itself taken as the second half.
ScaledByTimeAfterHalf(base, tr, early10, late10) ==
    IF 2 * tr > 3600
    THEN TruncDiv(base * early10, 10)
    ELSE TruncDiv(base * (18000 + (1800 - tr) * (late10 - 10)), 18000)

\* base * multiplier, truncated: multiplier is mult10 / 10 in the first half
\* and 1.0 + ((1800 - tr) / 1800) * (late10 / 10 - 1.0) in the second.
ScaledByTime(base, tr, early10, late10) ==
    IF 2 * tr >= 3600
    THEN TruncDiv(base * early10, 10)
    ELSE TruncDiv(base * (18000 + (1800 - tr) * (late10 - 10)), 18000)

\* The stop bounded from below only.
ClampStopFromBelow(x) == Max(3, x)

\* _calculate_dynamic_stop, line 668
ClampStop(x) == Max(3, Min(20, x))

\* _calculate_dynamic_target, line 704
ClampTarget(x) == Max(5, Min(30, x))

\* _calculate_dynamic_stop scaling whatever enable_time_scaling says.
CalculateDynamicStopScaled(b, base_stop, tick) ==
    ClampStop(ScaledByTime(base_stop, CalculateTimeRemaining(tick.quarter, tick.clock),
                           b.early_game_stop_mult10, b.late_game_stop_mult10))

\* LivePaperBot._calculate_dynamic_stop
CalculateDynamicStop(b, base_stop, tick) ==
    IF ~b.enable_time_scaling THEN base_stop
    ELSE ClampStop(ScaledByTime(base_stop,
                                CalculateTimeRemaining(tick.quarter, tick.clock),
                                b.early_game_stop_mult10, b.late_game_stop_mult10))

\* _calculate_dynamic_target with no scaling.
CalculateDynamicTargetUnscaled(b, base_target, tick) == base_target

\* LivePaperBot._calculate_dynamic_target
CalculateDynamicTarget(b, base_target, tick) ==
    IF ~b.enable_time_scaling THEN base_target
    ELSE ClampTarget(ScaledByTime(base_target,
                                  CalculateTimeRemaining(tick.quarter, tick.clock),
                                  b.early_game_target_mult10, b.late_game_target_mult10))

\* Not the code: the opening price never makes the sentiment "fade".
MarketSentimentFollow(b) == "follow"

\* LivePaperBot._calculate_game_context_score: the two fields the engine reads.
MarketSentiment(b) ==
    IF b.opening_home_price # 0 /\ b.opening_home_price >= FavoriteFadeThreshold
    THEN "fade" ELSE "follow"


(***************************************************************************)
(* State.                                                                  *)
(*   bot     the fields of one LivePaperBot object                         *)
(*   db      what the Database adapter holds for the session and the user  *)
(*   events  the messages handed to broadcast_fn, wallet snapshots apart   *)
(*   tasks   the coroutines in flight on the engine: task 0 is the tick    *)
(*           producer's on_tick call, tasks 1..MaxStops are stop() calls,  *)
(*           the last task is the top_up() call; each holds its position   *)
(*           (pc) and its local variables                                  *)
(*   hist    history variables: what was executed, for stating properties  *)
(*   app     main.py's registries, the GameLogger objects with their loops *)
(*           and the HTTP handlers in flight; an engine is followed there  *)
(*           only as far as its on_tick calls are outstanding or not       *)
(*   calc    one evaluation of the engine's pure helpers: the arguments    *)
(*           and, once computed, the results                               *)
(*   mirror  a second engine with its storage, events, tasks and history,  *)
(*           fed the reflection 100 - p of every home price p              *)
VARIABLES bot, db, events, tasks, hist, app, calc, mirror

engine_vars == <<bot, db, events, tasks, hist>>
vars == <<bot, db, events, tasks, hist, app, calc, mirror>>

TickTask == 0
StopTasks == 1..MaxStops
TopUpTask == MaxStops + 1

\* The five strategy parameters, as save_live_bot_state and get_wallet_status
\* write them.
ConfigOf(b) ==
    [momentum_threshold |-> b.momentum_threshold, initial_stop |-> b.initial_stop,
     profit_target |-> b.profit_target, breakeven_trigger |-> b.breakeven_trigger,
     position_size_pct |-> b.position_size_pct]

\* self.position = None
NoPosition == [side |-> "none"]
HasPosition(b) == b.position.side # "none"

NoTick == [tick |-> 0, home_price |-> 0, quarter |-> 0, clock |-> <<>>]

NewTask ==
    [pc |-> "new", caller |-> "none", tick |-> NoTick, price |-> 0, reason |-> "",
     pnl |-> 0, momentum |-> 0, alias |-> FALSE, pos |-> NoPosition, ret |-> 0,
     balance |-> 0, amount |-> 0, raised |-> FALSE]

World == [bot |-> bot, db |-> db, events |-> events, tasks |-> tasks, hist |-> hist]

Resting(pc) == pc \in {"new", "idle", "done"}

\* The dict a task's local variable pos refers to: the engine's position dict
\* while that is still the same object, the task's own copy once the engine
\* has dropped it.
PosOf(w, t) == IF w.tasks[t].alias THEN w.bot.position ELSE w.tasks[t].pos

\* self.position = None: tasks holding the dict keep it.
ClearPosition(w) ==
    [w EXCEPT !.tasks = [u \in DOMAIN w.tasks |->
                            IF w.tasks[u].alias
                            THEN [w.tasks[u] EXCEPT !.alias = FALSE, !.pos = w.bot.position]
                            ELSE w.tasks[u]],
              !.bot.position = NoPosition]

Goto(w, t, pc) == [w EXCEPT !.tasks[t].pc = pc]

\* The coroutine returns.
Finish(w, t) ==
    [w EXCEPT !.tasks[t] = [NewTask EXCEPT !.pc = IF t = TickTask THEN "idle" ELSE "done"]]

\* The coroutine ends by an exception.
Raise(w, t) ==
    [w EXCEPT !.tasks[t] = [NewTask EXCEPT !.pc = IF t = TickTask THEN "idle" ELSE "done",
                                           !.raised = TRUE],
              !.hist.raised = @ + 1]

Emit(w, e) == [w EXCEPT !.events = Append(@, e)]

Event(type, pos, price, amount, reason) ==
    [type |-> type, side |-> pos.side, entry_price |-> pos.entry_price,
     price |-> price, contracts |-> pos.contracts, amount |-> amount, reason |-> reason]

\* An awaited Database call: it raises (ok = FALSE) and ends the coroutine,
\* or takes effect and suspends the coroutine at pc.
Await(wsync, t, ok, pc, weffect) ==
    IF ok THEN Goto(weffect, t, pc) ELSE Raise(wsync, t)

(***************************************************************************)
(* The Database adapter.                                                   *)
(***************************************************************************)
\* Database.update_live_bot_bankroll
DbUpdateLiveBotBankroll(w) == [w EXCEPT !.db.live_bot_bankroll = w.bot.bankroll]

\* Database.insert_trade: the row's id is returned.  config_snapshot is what
\* _check_entry, lines 316-322, reads from the engine when it makes the call;
\* decided_with is the history field of the position.
DbInsertTrade(w, pos) ==
    [w EXCEPT !.db.trades = Append(@,
        [side |-> pos.side, entry_price |-> pos.entry_price, entry_tick |-> pos.entry_tick,
         contracts |-> pos.contracts, closed |-> FALSE, exit_price |-> 0,
         exit_reason |-> "", pnl |-> 0, opened |-> pos.opened,
         config_snapshot |-> ConfigOf(w.bot), decided_with |-> pos.decided_with,
         dca_saved |-> FALSE, dca_count |-> 0,
         avg_entry_price |-> 0, total_cost |-> 0, dca_history |-> <<>>])]

\* Database.update_trade_exit
DbUpdateTradeExit(w, id, price, reason, pnl) ==
    [w EXCEPT !.db.trades[id].closed = TRUE, !.db.trades[id].exit_price = price,
              !.db.trades[id].exit_reason = reason, !.db.trades[id].pnl = pnl]

\* update_trade_dca (the adapter's recordTradeDcaAddition): the totals and the
\* history are saved with the trade.
DbUpdateTradeDca(w, id, pos) ==
    [w EXCEPT !.db.trades[id].dca_saved = TRUE, !.db.trades[id].contracts = pos.contracts,
              !.db.trades[id].dca_count = pos.dca_count,
              !.db.trades[id].avg_entry_price = pos.avg_entry_price,
              !.db.trades[id].total_cost = pos.total_cost,
              !.db.trades[id].dca_history = pos.dca_history]

\* save_opening_prices
DbSaveOpeningPrices(w) == [w EXCEPT !.db.opening_home_price = w.bot.opening_home_price]

\* Database.update_user_balance
DbUpdateUserBalance(w, new_balance) == [w EXCEPT !.db.current_balance = new_balance]

\* Database.add_wallet_transaction
DbAddWalletTransaction(w, type, amount, balance_after) ==
    [w EXCEPT !.db.wallet_transactions =
                  Append(@, [tx_type |-> type, amount |-> amount,
                             balance_after |-> balance_after])]

\* Database.stop_live_bot
DbStopLiveBot(w) == [w EXCEPT !.db.live_bot_active = FALSE]


(***************************************************************************)
(* The engine.  Each operator takes the world w, the task t that runs the  *)
(* code and ok, which says whether the next awaited Database call returns  *)
(* (TRUE) or raises; it runs the code up to that call and gives the world  *)
(* with t suspended in it.                                                 *)
(***************************************************************************)

\* on_tick, lines 228-234: the wallet snapshot, then the coroutine returns.
BroadcastWallet(w, t) ==
    Goto([w EXCEPT !.hist.wallet_broadcasts = @ + 1], t, "wallet_bcast")

\* _execute_exit, lines 398-402.
Proceeds(pos, price) ==
    IF pos.side = "long" THEN pos.contracts * price ELSE pos.contracts * (100 - price)

\* _execute_exit, line 404.
ExitPnl(pos, proceeds) == proceeds - pos.cost

\* _execute_exit, line 405.
BankrollAfterExit(bankroll, proceeds) == bankroll + proceeds

\* _execute_exit, lines 395-415.
ExecuteExit(w, t, price, reason, ok) ==
    LET pos == w.bot.position
        proceeds == Proceeds(pos, price)
        pnl == ExitPnl(pos, proceeds)
        w1 == [w EXCEPT !.bot.bankroll = BankrollAfterExit(@, proceeds),
                        !.bot.total_pnl = @ + pnl,
                        !.bot.total_trades = @ + 1,
                        !.bot.wins = IF pnl > 0 THEN @ + 1 ELSE @,
                        !.bot.losses = IF pnl < 0 THEN @ + 1 ELSE @,
                        !.tasks[t].alias = TRUE,
                        !.tasks[t].price = price,
                        !.tasks[t].reason = reason,
                        !.tasks[t].pnl = pnl,
                        !.hist.exits = Append(@, [pnl |-> pnl, proceeds |-> proceeds,
                                                   total_cost |-> pos.total_cost,
                                                   cost |-> pos.cost,
                                                   contracts |-> pos.contracts,
                                                   dca_count |-> pos.dca_count,
                                                   reason |-> reason,
                                                   opened |-> pos.opened,
                                                   by |-> w.tasks[t].caller,
                                                   side |-> pos.side,
                                                   price |-> price,
                                                   avg_entry_price |-> pos.avg_entry_price,
                                                   entry_price |-> pos.entry_price,
                                                   entry_tick |-> pos.entry_tick,
                                                   armed |-> pos.armed])]
    IN  Await(w1, t, ok, "exit_bankroll", DbUpdateLiveBotBankroll(w1))

\* Not the code: a gain equal to the target is not yet a profit.
TargetPassed(gain, current_target) == gain > current_target

\* _check_exit, lines 367 and 385: if gain >= current_target
TargetReached(gain, current_target) == gain >= current_target

\* Not the code: the stop stays at the entry price once the gain has reached the
\* trigger on some tick.
BreakevenReachedOnce(b, pos, gain) == pos.armed \/ gain >= b.breakeven_trigger

\* _check_exit, lines 359 and 377: if gain >= self.breakeven_trigger
BreakevenReached(b, pos, gain) == gain >= b.breakeven_trigger

\* _check_exit: the exit reason, "" for none.
ExitReason(b, price, tick) ==
    LET pos == b.position
        entry_price == pos.avg_entry_price
        gain == IF pos.side = "long" THEN price - entry_price ELSE entry_price - price
        breakeven == BreakevenReached(b, pos, gain)
        stop_type == IF breakeven THEN "BREAKEVEN" ELSE "STOP"
        Against(stop_price, current_target) ==
            IF TargetReached(gain, current_target) THEN "PROFIT"
            ELSE IF pos.side = "long" /\ price <= stop_price THEN stop_type
            ELSE IF pos.side = "short" /\ price >= stop_price THEN stop_type
            ELSE ""
        With(current_stop, current_target) ==
            Against(IF breakeven THEN entry_price
                    ELSE IF pos.side = "long" THEN entry_price - current_stop
                    ELSE entry_price + current_stop,
                    current_target)
    IN  With(CalculateDynamicStop(b, b.initial_stop, tick),
             CalculateDynamicTarget(b, b.profit_target, tick))

\* _check_exit, lines 357 and 375: the gain over the average entry price.
Gain(pos, price) ==
    IF pos.side = "long" THEN price - pos.avg_entry_price ELSE pos.avg_entry_price - price

\* _check_exit, lines 356 and 374: the watermark of the held side.  The history
\* field armed notes that the gain has reached breakeven_trigger on a tick.
UpdateWatermark(w, price) ==
    LET w1 == [w EXCEPT !.bot.position.armed =
                            @ \/ Gain(w.bot.position, price) >= w.bot.breakeven_trigger]
    IN  IF w.bot.position.side = "long"
        THEN [w1 EXCEPT !.bot.position.high = Max(@, price)]
        ELSE [w1 EXCEPT !.bot.position.low = Min(@, price)]

\* A fill that is not paid for.
BankrollAfterFillUnpaid(bankroll, cost) == bankroll

\* _check_entry, line 302, and _execute_dca_addition, line 941.
BankrollAfterFill(bankroll, cost) == bankroll - cost

\* Not the code: the average rounded to the nearest cent.
DcaAvgEntryPriceRounded(side, total_cost, contracts) ==
    IF side = "long" THEN TruncDiv(2 * total_cost + contracts, 2 * contracts)
    ELSE TruncDiv(2 * (100 * contracts - total_cost) + contracts, 2 * contracts)

\* _execute_dca_addition, lines 914-924: int(total_cost * 100 / contracts) for a
\* long, int(100 - total_cost * 100 / contracts) for a short, total_cost in cents
\* here.
DcaAvgEntryPrice(side, total_cost, contracts) ==
    IF side = "long" THEN TruncDiv(total_cost, contracts)
    ELSE TruncDiv(100 * contracts - total_cost, contracts)

\* _execute_dca_addition; num / den is dca_size in cents.
ExecuteDcaAddition(w, t, price, num, den, ok) ==
    LET pos == w.bot.position
        unit == IF pos.side = "long" THEN price ELSE 100 - price
    IN  IF unit = 0 THEN Raise(w, t)              \* ZeroDivisionError
        ELSE
        LET new_contracts == TruncDiv(num, den * unit)
            add_cost == new_contracts * unit
            contracts == pos.contracts + new_contracts
            total_cost == pos.total_cost + add_cost
            avg == DcaAvgEntryPrice(pos.side, total_cost, contracts)
            w1 == [w EXCEPT !.bot.position.contracts = contracts,
                            !.bot.position.total_cost = total_cost,
                            !.bot.position.avg_entry_price = avg,
                            !.bot.position.dca_count = @ + 1,
                            !.bot.position.dca_history =
                                Append(@, [price |-> price, contracts |-> new_contracts,
                                           cost |-> add_cost, tick |-> w.tasks[t].tick.tick]),
                            !.bot.bankroll = BankrollAfterFill(@, add_cost),
                            !.tasks[t].alias = TRUE,
                            !.tasks[t].price = price,
                            !.tasks[t].ret = new_contracts,
                            !.hist.dca_fills = @ + 1]
        IN  IF new_contracts < 1 THEN BroadcastWallet(w, t)
            ELSE IF pos.trade_id = 0 THEN Raise(w1, t)     \* KeyError: 'trade_id'
            ELSE Await(w1, t, ok, "dca_trade", DbUpdateTradeDca(w1, pos.trade_id, w1.bot.position))

\* dca_size taken from what is left of the bankroll.
DcaSizeNumOfBankroll(b, dca_count) ==
    b.bankroll * b.position_size_pct * Pow(DcaSizeMultNum, dca_count + 1)

\* _check_dca, lines 864-866: dca_size = starting_bankroll * position_size_pct
\* * dca_size_multiplier ** (dca_count + 1), in cents, as the fraction
\* DcaSizeNum / DcaSizeDen.
DcaSizeNum(b, dca_count) ==
    b.starting_bankroll * b.position_size_pct * Pow(DcaSizeMultNum, dca_count + 1)

DcaSizeDen(dca_count) == 100 * Pow(DcaSizeMultDen, dca_count + 1)

\* Not the code: any position is added to, whatever the price has done.
DcaTooEarlyNever(loss_from_avg) == FALSE

\* _check_dca, lines 856-861: if loss_from_avg < self.dca_trigger_cents: return
DcaTooEarly(loss_from_avg) == loss_from_avg < DcaTriggerCents

\* No total-risk limit.
DcaOverRiskNever(b, pos) == FALSE

\* _check_dca, lines 868-872: total_cost + dca_size >
\* starting_bankroll * dca_max_total_risk_pct, both sides multiplied by
\* DcaSizeDen.
DcaOverRisk(b, pos) ==
    pos.total_cost * DcaSizeDen(pos.dca_count) + DcaSizeNum(b, pos.dca_count)
        > b.starting_bankroll * DcaMaxTotalRiskPct * Pow(DcaSizeMultDen, pos.dca_count + 1)

\* _check_dca
CheckDca(w, t, ok) ==
    LET b == w.bot
        pos == b.position
        tick == w.tasks[t].tick
        price == tick.home_price
        loss_from_avg == IF pos.side = "long" THEN pos.avg_entry_price - price
                         ELSE price - pos.avg_entry_price
        \* dca_size in cents: num / den with
        num == DcaSizeNum(b, pos.dca_count)
        den == DcaSizeDen(pos.dca_count)
    IN  IF ~b.enable_dca
           \/ pos.dca_count >= DcaMaxAdditions
           \/ CalculateTimeRemaining(tick.quarter, tick.clock) < DcaMinTimeRemaining
           \/ DcaTooEarly(loss_from_avg)
           \/ DcaOverRisk(b, pos)
           \/ num > b.bankroll * den
        THEN BroadcastWallet(w, t)
        ELSE ExecuteDcaAddition(w, t, price, num, den, ok)

\* The change over one tick only.
MomentumOneBack(h) == h[Len(h)] - h[Len(h) - 1]

\* _check_entry, line 262: price_history[-1] - price_history[-3]
Momentum(h) == h[Len(h)] - h[Len(h) - 2]

\* _check_entry
CheckEntry(w, t, ok) ==
    LET b == w.bot
        tick == w.tasks[t].tick
        price == tick.home_price
        n == Len(b.price_history)
        momentum_required ==
            IF b.enable_game_context /\ MarketSentiment(b) = "fade"
            THEN b.momentum_threshold + 2 ELSE b.momentum_threshold
    IN  IF price < 10 \/ price > 90 \/ n < 3
           \/ (b.enable_game_context
                 /\ CalculateTimeRemaining(tick.quarter, tick.clock) < 300)
        THEN BroadcastWallet(w, t)
        ELSE
        LET momentum == Momentum(b.price_history)
            side == IF momentum >= momentum_required THEN "long"
                    ELSE IF momentum <= -momentum_required THEN "short" ELSE "none"
            unit == IF side = "long" THEN price ELSE 100 - price
            \* int(bankroll * position_size_pct / unit * 100), bankroll in dollars
            contracts == TruncDiv(b.bankroll * b.position_size_pct, 100 * unit)
            cost == contracts * unit
            pos == [side |-> side, entry_price |-> price, contracts |-> contracts,
                    cost |-> cost, entry_tick |-> tick.tick,
                    high |-> IF side = "long" THEN price ELSE 0,
                    low |-> IF side = "short" THEN price ELSE 0,
                    dca_count |-> 0, avg_entry_price |-> price, total_cost |-> cost,
                    dca_history |-> <<>>, trade_id |-> 0,
                    opened |-> w.hist.opened + 1, armed |-> FALSE,
                    decided_with |-> ConfigOf(b)]
            w1 == [w EXCEPT !.bot.position = pos,
                            !.bot.bankroll = BankrollAfterFill(@, cost),
                            !.tasks[t].pos = pos,
                            !.tasks[t].momentum = momentum,
                            !.hist.opened = @ + 1]
        IN  IF side = "none" \/ contracts < 1 THEN BroadcastWallet(w, t)
            ELSE Await(w1, t, ok, "entry_bankroll", DbUpdateLiveBotBankroll(w1))

\* Not the code: on_tick looking for an entry after an exit on the same tick.
AfterCheckExitThenEntry(w, t, ok) ==
    IF HasPosition(w.bot) THEN CheckDca(w, t, ok)
    ELSE IF w.bot.bankroll > 100 THEN CheckEntry(w, t, ok)
    ELSE BroadcastWallet(w, t)

\* on_tick, lines 209-211, after _check_exit has returned.
AfterCheckExit(w, t, ok) ==
    IF HasPosition(w.bot) THEN CheckDca(w, t, ok) ELSE BroadcastWallet(w, t)

\* Not the code: a bankroll of exactly 1 still looks for an entry.
BranchFromOne(b) ==
    IF HasPosition(b) THEN "exit" ELSE IF b.bankroll >= 100 THEN "entry" ELSE "low_balance"

\* on_tick looking for an entry whether or not a position is held.
BranchAlwaysEntry(b) == IF b.bankroll > 100 THEN "entry" ELSE "low_balance"

\* on_tick, lines 206-216: which check the tick goes to.
Branch(b) ==
    IF HasPosition(b) THEN "exit" ELSE IF b.bankroll > 100 THEN "entry" ELSE "low_balance"

\* History: the tick on_tick was last given, with the bankroll, the position
\* and the number of events when it came; kept under SpecEntry and SpecDca only.
NoGiven == [tick |-> NoTick, bankroll |-> 0, flat |-> FALSE, position |-> NoPosition,
            n_events |-> 0]

\* History: the tick _check_exit was last called with and the position it
\* found, or NoCheck when the latest tick processed did not go to _check_exit.
NoCheck == [checked |-> FALSE]

ExitCheck(pos, tick) ==
    [checked |-> TRUE, quarter |-> tick.quarter, clock |-> tick.clock,
     price |-> tick.home_price, side |-> pos.side,
     avg_entry_price |-> pos.avg_entry_price, opened |-> pos.opened]

\* on_tick, lines 200-226.
AfterOpeningPrice(w, t, ok) ==
    LET price == w.tasks[t].tick.home_price
        appended == Append(w.bot.price_history, price)
        Exit(w2, reason) ==
            IF reason # "" THEN ExecuteExit(w2, t, price, reason, ok)
            ELSE AfterCheckExit(w2, t, ok)
        Check(w1, branch) ==
            IF branch = "exit"
            THEN Exit(UpdateWatermark(w1, price), ExitReason(w1.bot, price, w.tasks[t].tick))
            ELSE IF branch = "entry" THEN CheckEntry(w1, t, ok)
            ELSE Goto(Emit(w1, [type |-> "live_bot_low_balance", side |-> "none",
                                entry_price |-> 0, price |-> 0, contracts |-> 0,
                                amount |-> w1.bot.bankroll, reason |-> ""]),
                      t, "lowbal_bcast")
        Appended(w1) == Check(w1, Branch(w1.bot))
    IN  Appended([w EXCEPT !.bot.price_history =
                     IF Len(appended) > HistoryCap
                     THEN SubSeq(appended, Len(appended) - HistoryCap + 1, Len(appended))
                     ELSE appended,
                           !.hist.exit_check =
                     IF HasPosition(w.bot) THEN ExitCheck(w.bot.position, w.tasks[t].tick)
                     ELSE NoCheck])

\* No price counts as missing.
NoDataNever(tick) == FALSE

\* on_tick, lines 192-194: a home price of 0 is no data.
NoData(tick) == tick.home_price = 0

\* on_tick without the is_active test.
TickIgnoredZeroPriceOnly(b, tick) == tick.home_price = 0


\* on_tick, lines 189-194: the tick is dropped.
TickIgnored(b, tick) == ~b.is_active \/ NoData(tick)

\* on_tick, lines 187-198, with _store_opening_price.  The history fields
\* nodata_flat and nodata_open count the ticks of price 0 handed to an active
\* engine without and with a position.
OnTickBegin(w, tick, ok) ==
    LET t == TickTask
        nodata == w.bot.is_active /\ tick.home_price = 0
        w0 == [w EXCEPT !.tasks[t] = [NewTask EXCEPT !.pc = "idle", !.caller = "tick",
                                                     !.tick = tick],
                        !.hist.n_ticks = @ + 1,
                        !.hist.tick_count = @ + 1,
                        !.hist.nodata_flat =
                            IF nodata /\ ~HasPosition(w.bot) THEN @ + 1 ELSE @,
                        !.hist.nodata_open =
                            IF nodata /\ HasPosition(w.bot) THEN @ + 1 ELSE @]
    IN  IF TickIgnored(w.bot, tick)
        THEN Finish([w0 EXCEPT !.hist.inert_ticks = IF w.bot.is_active THEN @ ELSE @ + 1], t)
        ELSE IF ~w.bot.first_tick_received
        THEN LET w1 == [w0 EXCEPT !.bot.opening_home_price = tick.home_price,
                                 !.bot.first_tick_received = TRUE]
             IN  Await(w1, t, ok, "open_price", DbSaveOpeningPrices(w1))
        ELSE AfterOpeningPrice(w0, t, ok)

\* stop, lines 567-582.
ReleaseBankroll(w, t, ok) ==
    IF w.bot.user_id # 0 /\ w.bot.bankroll > 0
    THEN Await(w, t, ok, "stop_get_user", [w EXCEPT !.tasks[t].balance = w.db.current_balance])
    ELSE Await(w, t, ok, "stop_db", DbStopLiveBot(w))

\* stop, lines 555-565.
StopBegin(w, t, reason, ok) ==
    LET w1 == [w EXCEPT !.bot.is_active = FALSE,
                        !.tasks[t] = [NewTask EXCEPT !.pc = "idle", !.caller = "stop"],
                        !.hist.stops = @ + 1]
    IN  IF HasPosition(w1.bot) /\ w1.bot.price_history # <<>>
        THEN ExecuteExit(w1, t, Last(w1.bot.price_history), reason, ok)
        ELSE ReleaseBankroll(w1, t, ok)

\* Not the code: the amount leaves the user's balance and never reaches the bankroll.
BankrollAfterTopUpLost(bankroll, amount) == bankroll

\* top_up, line 532: self.bankroll += amount
BankrollAfterTopUp(bankroll, amount) == bankroll + amount

\* top_up with the test of the balance left out.
TopUpFundedAlways(balance, amount) == TRUE

\* top_up, line 517: the user has the amount.
TopUpFunded(balance, amount) == balance >= amount

\* top_up, lines 507-513.  The history fields topups, topup_amount and
\* topup_error count the calls and give the amount of the latest call and the
\* ValueError it raised, "" for none; topped_up is the sum of the amounts
\* added to the bankroll.
TopUpBegin(w, t, amount, ok) ==
    LET Called(w0) ==
            IF w.bot.user_id = 0
            THEN Raise([w0 EXCEPT !.hist.topup_error = "no_user"], t)
            ELSE Await(w0, t, ok, "topup_get_user",
                       [w0 EXCEPT !.tasks[t].balance = w.db.current_balance])
    IN  Called([w EXCEPT !.tasks[t] = [NewTask EXCEPT !.pc = "idle", !.caller = "topup",
                                                      !.amount = amount],
                         !.hist.topups = @ + 1,
                         !.hist.topup_amount = amount,
                         !.hist.topup_error = ""])

\* Not the code: update_config taking the bankroll key as the engine's bankroll
\* and starting bankroll.
UpdateConfigWithBankroll(b, config) ==
    LET Key(k, old) == IF k \in DOMAIN config THEN config[k] ELSE old
    IN  [b EXCEPT !.momentum_threshold = Key("momentum_threshold", @),
                  !.initial_stop = Key("initial_stop", @),
                  !.profit_target = Key("profit_target", @),
                  !.breakeven_trigger = Key("breakeven_trigger", @),
                  !.position_size_pct = Key("position_size_pct", @),
                  !.bankroll = Key("bankroll", @),
                  !.starting_bankroll = Key("bankroll", @)]

\* update_config: the keys present are assigned; any other key (bankroll,
\* which update_live_bot_config passes on) is ignored.
UpdateConfig(b, config) ==
    LET Key(k, old) == IF k \in DOMAIN config THEN config[k] ELSE old
    IN  [b EXCEPT !.momentum_threshold = Key("momentum_threshold", @),
                  !.initial_stop = Key("initial_stop", @),
                  !.profit_target = Key("profit_target", @),
                  !.breakeven_trigger = Key("breakeven_trigger", @),
                  !.position_size_pct = Key("position_size_pct", @)]

\* The awaited call of task t returns: the code runs on to its next await.
Resume(w, t, ok) ==
    LET me == w.tasks[t]
        pc == me.pc
        pos == PosOf(w, t)
    IN  CASE pc = "open_price" -> AfterOpeningPrice(w, t, ok)
          \* _check_entry, lines 307-340
          [] pc = "entry_bankroll" ->
                Await(w, t, ok, "entry_trade",
                      [DbInsertTrade(w, me.pos) EXCEPT !.tasks[t].ret = Len(w.db.trades) + 1])
          [] pc = "entry_trade" ->
                IF ~HasPosition(w.bot) THEN Raise(w, t)    \* TypeError: None['trade_id']
                ELSE Goto(Emit([w EXCEPT !.bot.position.trade_id = me.ret],
                               Event("live_bot_entry", me.pos, me.pos.entry_price,
                                     me.pos.cost, "")),
                          t, "entry_bcast")
          [] pc = "entry_bcast" -> BroadcastWallet(w, t)
          \* _execute_exit, lines 417-442
          [] pc = "exit_bankroll" ->
                IF pos.trade_id = 0 THEN Raise(w, t)       \* KeyError: 'trade_id'
                ELSE Await(w, t, ok, "exit_trade",
                           DbUpdateTradeExit(w, pos.trade_id, me.price, me.reason, me.pnl))
          [] pc = "exit_trade" ->
                Goto(Emit(w, Event("live_bot_exit", pos, me.price, me.pnl, me.reason)),
                     t, "exit_bcast")
          [] pc = "exit_bcast" ->
                IF me.caller = "tick" THEN AfterCheckExit(ClearPosition(w), t, ok)
                ELSE ReleaseBankroll(ClearPosition(w), t, ok)
          \* _execute_dca_addition, lines 952-974
          [] pc = "dca_trade" ->
                Await(w, t, ok, "dca_bankroll", DbUpdateLiveBotBankroll(w))
          [] pc = "dca_bankroll" ->
                Goto(Emit(w, Event("live_bot_dca", pos, me.price, me.ret * 
                                   (IF pos.side = "long" THEN me.price ELSE 100 - me.price),
                                   "")),
                     t, "dca_bcast")
          [] pc = "dca_bcast" -> BroadcastWallet(w, t)
          [] pc = "lowbal_bcast" -> BroadcastWallet(w, t)
          [] pc = "wallet_bcast" -> Finish(w, t)
          \* stop, lines 569-582
          [] pc = "stop_get_user" ->
                LET new_balance == me.balance + w.bot.bankroll
                IN  Await(w, t, ok, "stop_balance",
                          [DbUpdateUserBalance(w, new_balance)
                              EXCEPT !.tasks[t].balance = new_balance])
          [] pc = "stop_balance" ->
                Await(w, t, ok, "stop_tx",
                      DbAddWalletTransaction(w, "bot_stop", w.bot.bankroll, me.balance))
          [] pc = "stop_tx" -> Await(w, t, ok, "stop_db", DbStopLiveBot(w))
          [] pc = "stop_db" -> Finish(w, t)
          \* top_up, lines 517-553
          [] pc = "topup_get_user" ->
                IF ~TopUpFunded(me.balance, me.amount)
                THEN Raise([w EXCEPT !.hist.topup_error = "insufficient"], t)
                ELSE Await(w, t, ok, "topup_balance",
                           [DbUpdateUserBalance(w, me.balance - me.amount)
                               EXCEPT !.tasks[t].balance = me.balance - me.amount])
          [] pc = "topup_balance" ->
                Await(w, t, ok, "topup_tx",
                      DbAddWalletTransaction(w, "bot_topup", -me.amount, me.balance))
          [] pc = "topup_tx" ->
                LET Credited(w1) ==
                        Await(w1, t, ok, "topup_bankroll", DbUpdateLiveBotBankroll(w1))
                IN  Credited([w EXCEPT !.bot.bankroll = BankrollAfterTopUp(@, me.amount),
                                       !.hist.topped_up = @ + me.amount])
          [] pc = "topup_bankroll" ->
                Goto(Emit(w, [type |-> "live_bot_topup", side |-> "none",
                              entry_price |-> 0, price |-> 0, contracts |-> 0,
                              amount |-> me.amount, reason |-> ""]),
                     t, "topup_bcast")
          [] pc = "topup_bcast" -> Finish(w, t)

\* A coroutine run to its end with no other coroutine in between; the k-th
\* call it awaits from here on raises (none does when k is 0 or too large).
RECURSIVE Run(_, _, _)
Run(w, t, k) ==
    IF Resting(w.tasks[t].pc) THEN w ELSE Run(Resume(w, t, k # 1), t, k - 1)


(***************************************************************************)
(* Construction and resumption.                                            *)
(***************************************************************************)
\* LivePaperBot.__init__
NewBot(bankroll, config, user_id, enable_dca) ==
    [bankroll |-> bankroll, starting_bankroll |-> bankroll, position |-> NoPosition,
     price_history |-> <<>>,
     momentum_threshold |-> config.momentum_threshold,
     initial_stop |-> config.initial_stop,
     profit_target |-> config.profit_target,
     breakeven_trigger |-> config.breakeven_trigger,
     position_size_pct |-> config.position_size_pct,
     user_id |-> user_id,
     enable_time_scaling |-> TRUE, enable_game_context |-> TRUE,
     early_game_stop_mult10 |-> EarlyGameStopMult10,
     late_game_stop_mult10 |-> LateGameStopMult10,
     early_game_target_mult10 |-> EarlyGameTargetMult10,
     late_game_target_mult10 |-> LateGameTargetMult10,
     enable_dca |-> enable_dca,
     opening_home_price |-> 0, first_tick_received |-> FALSE,
     is_active |-> TRUE, total_trades |-> 0, wins |-> 0, losses |-> 0, total_pnl |-> 0]

DefaultConfig(pct) ==
    [momentum_threshold |-> MomentumThreshold, initial_stop |-> InitialStop,
     profit_target |-> ProfitTarget, breakeven_trigger |-> BreakevenTrigger,
     position_size_pct |-> pct]

\* Database.save_live_bot_state
DbSaveLiveBotState(d, b) ==
    [d EXCEPT !.live_bot_active = TRUE, !.live_bot_bankroll = b.bankroll,
              !.live_bot_starting_bankroll = b.starting_bankroll,
              !.live_bot_config = ConfigOf(b)]

RECURSIVE SumPnl(_)
SumPnl(trades) ==
    IF trades = <<>> THEN 0
    ELSE (IF Head(trades).closed THEN Head(trades).pnl ELSE 0) + SumPnl(Tail(trades))

\* Database.get_open_trade: the rows with no exit; the latest entry_tick first.
OpenTrades(d) ==
    {i \in 1..Len(d.trades) :
        /\ ~d.trades[i].closed
        /\ \A j \in 1..Len(d.trades) :
              ~d.trades[j].closed => d.trades[j].entry_tick <= d.trades[i].entry_tick}

\* The position rebuilt with every contract counted at the entry price.
RebuiltPositionAtEntryPrice(d, i) ==
    LET row == d.trades[i]
        unit == IF row.side = "long" THEN row.entry_price ELSE 100 - row.entry_price
    IN  [side |-> row.side, entry_price |-> row.entry_price, contracts |-> row.contracts,
         cost |-> row.contracts * unit, entry_tick |-> row.entry_tick,
         high |-> IF row.side = "long" THEN row.entry_price ELSE 0,
         low |-> IF row.side = "short" THEN row.entry_price ELSE 0,
         dca_count |-> IF row.dca_saved THEN row.dca_count ELSE 0,
         avg_entry_price |-> row.entry_price,
         total_cost |-> row.contracts * unit,
         dca_history |-> IF row.dca_saved THEN row.dca_history ELSE <<>>,
         trade_id |-> i, opened |-> row.opened, armed |-> FALSE,
         decided_with |-> row.decided_with]

\* initialize, lines 143-171: the position rebuilt from trade row i.
RebuiltPosition(d, i) ==
    LET row == d.trades[i]
        unit == IF row.side = "long" THEN row.entry_price ELSE 100 - row.entry_price
        total_cost == IF row.dca_saved THEN row.total_cost ELSE row.contracts * unit
    IN  [side |-> row.side, entry_price |-> row.entry_price, contracts |-> row.contracts,
         cost |-> total_cost, entry_tick |-> row.entry_tick,
         high |-> IF row.side = "long" THEN row.entry_price ELSE 0,
         low |-> IF row.side = "short" THEN row.entry_price ELSE 0,
         dca_count |-> IF row.dca_saved THEN row.dca_count ELSE 0,
         avg_entry_price |-> IF row.dca_saved THEN row.avg_entry_price ELSE row.entry_price,
         total_cost |-> total_cost,
         dca_history |-> IF row.dca_saved THEN row.dca_history ELSE <<>>,
         trade_id |-> i, opened |-> row.opened, armed |-> FALSE,
         decided_with |-> row.decided_with]

\* Not the code: a resume that does not load the opening prices.
ResumedBotNoOpening(d, i) ==
    LET b0 == NewBot(d.live_bot_bankroll, d.live_bot_config, d.session_user_id, FALSE)
    IN  [b0 EXCEPT !.starting_bankroll = d.live_bot_starting_bankroll,
                   !.total_trades = Len(d.trades),
                   !.total_pnl = SumPnl(d.trades),
                   !.position = IF i = 0 THEN NoPosition ELSE RebuiltPosition(d, i)]

\* lifespan, lines 64-86, with initialize: the engine of a session whose bot
\* was active, built again from storage; i is the open trade row, 0 for none.
ResumedBot(d, i) ==
    LET b0 == NewBot(d.live_bot_bankroll, d.live_bot_config, d.session_user_id, FALSE)
        closedwins == {j \in 1..Len(d.trades) : d.trades[j].closed /\ d.trades[j].pnl > 0}
        closedlosses == {j \in 1..Len(d.trades) :
                            /\ d.trades[j].closed /\ d.trades[j].pnl <= 0
                            /\ d.trades[j].exit_price # 0}
    IN  [b0 EXCEPT !.starting_bankroll = d.live_bot_starting_bankroll,
                   !.opening_home_price = d.opening_home_price,
                   !.first_tick_received = d.opening_home_price # 0,
                   !.total_trades = Len(d.trades),
                   !.wins = Cardinality(closedwins),
                   !.losses = Cardinality(closedlosses),
                   !.total_pnl = SumPnl(d.trades),
                   !.position = IF i = 0 THEN NoPosition ELSE RebuiltPosition(d, i)]

(***************************************************************************)
(* Inputs.                                                                 *)
(***************************************************************************)
Prices == {40, 50, 56, 70}

\* 3600 s left (first quarter, full clock) and 480 s left (fourth quarter).
GameTimes == {[quarter |-> 1, clock |-> <<"1", "5", ":", "0", "0">>],
              [quarter |-> 4, clock |-> <<"0", "8", ":", "0", "0">>]}

Ticks(n) == {[tick |-> n, home_price |-> p, quarter |-> g.quarter, clock |-> g.clock] :
                p \in Prices, g \in GameTimes}

StopReasons == {"BOT_STOPPED", "CLEANUP_STALE_SESSION"}

\* What start_live_bot is asked for: the defaults, a smaller position size with
\* DCA enabled, and a position size above 100 %.
StartRequests == {[position_size_pct |-> 50, enable_dca |-> FALSE],
                  [position_size_pct |-> 30, enable_dca |-> TRUE],
                  [position_size_pct |-> 200, enable_dca |-> FALSE]}

(***************************************************************************)
(* The initial state: start_live_bot has returned for a session with no    *)
(* trades; the allocation has been taken from the user's balance.          *)
(***************************************************************************)
EngineStart(b) ==
    /\ bot = b
    /\ db = DbSaveLiveBotState(
               [live_bot_active |-> FALSE, live_bot_bankroll |-> 0,
                live_bot_starting_bankroll |-> 0,
                live_bot_config |-> ConfigOf(b), session_user_id |-> 0,
                opening_home_price |-> 0, trades |-> <<>>,
                current_balance |-> UserStartBalance - b.bankroll,
                wallet_transactions |->
                    <<[tx_type |-> "bot_start", amount |-> -b.bankroll,
                       balance_after |-> UserStartBalance - b.bankroll]>>],
               b)
    /\ events = <<>>
    /\ tasks = [t \in {TickTask} \cup StopTasks \cup {TopUpTask} |->
                   [NewTask EXCEPT !.pc = IF t = TickTask THEN "idle" ELSE "new"]]
    /\ hist = [n_ticks |-> 0, tick_count |-> 0, stops |-> 0, restarts |-> 0,
               opened |-> 0, dca_fills |-> 0, wallet_broadcasts |-> 0,
               raised |-> 0, inert_ticks |-> 0, config_updates |-> 0,
               topups |-> 0, topped_up |-> 0, topup_amount |-> 0, topup_error |-> "",
               nodata_flat |-> 0, nodata_open |-> 0, exits |-> <<>>,
               exit_check |-> NoCheck, given |-> NoGiven,
               intended |-> [position |-> NoPosition, bankroll |-> b.bankroll]]

\* start_live_bot, lines 721-787, asked for r.
EngineInit(r) ==
    EngineStart(NewBot(DefaultBankroll, DefaultConfig(r.position_size_pct), 1, r.enable_dca))

\* GameLogger.__init__
NewLogger(start_tick) ==
    [is_running |-> FALSE, bot |-> 0, pc |-> "created", tick_count |-> start_tick,
     calling |-> 0, produced |-> 0]

\* An engine as the tick producer sees it.
NewEngine ==
    [is_active |-> TRUE, in_flight |-> 0, received |-> 0, last_tick |-> 0,
     in_order |-> TRUE]

\* No logger, no bot, no request.
AppEmpty ==
    [loggers |-> <<>>, engines |-> <<>>, active_loggers |-> 0, active_live_bots |-> 0,
     requests |-> <<>>, last_tick |-> 0]

\* lifespan, lines 47-93: the session's logger resumed with its bot attached.
AppResumed ==
    [AppEmpty EXCEPT !.loggers = <<[NewLogger(0) EXCEPT !.bot = 1]>>,
                     !.engines = <<NewEngine>>,
                     !.active_loggers = 1, !.active_live_bots = 1]

\* Nothing is being evaluated.
NoCalc == [kind |-> "none"]

\* No second engine.
NoMirror == <<>>

Init ==
    /\ \E r \in StartRequests : EngineInit(r)
    /\ app = AppResumed
    /\ calc = NoCalc
    /\ mirror = NoMirror

Set(w) ==
    /\ bot' = w.bot
    /\ db' = w.db
    /\ events' = w.events
    /\ tasks' = w.tasks
    /\ hist' = w.hist
    /\ UNCHANGED <<app, calc, mirror>>

Quiet == \A t \in DOMAIN tasks : Resting(tasks[t].pc)

\* The stop() call that comes next: the lowest-numbered one not yet made.
NextStop == CHOOSE i \in StopTasks : tasks[i].pc = "new" /\ \A j \in StopTasks : j < i => tasks[j].pc # "new"

(***************************************************************************)
(* Sequential use of the engine: each call runs to its end before the next *)
(* one starts, and no Database call raises.                                *)
(***************************************************************************)
\* GameLogger._tick, lines 157-158: await self.bot.on_tick(tick)
OnTick ==
    /\ Quiet
    /\ hist.n_ticks < MaxTicks
    /\ \E tick \in Ticks(hist.tick_count + 1) :
          Set(Run(OnTickBegin(World, tick, TRUE), TickTask, 0))

\* await bot.stop(reason)
Stop ==
    /\ Quiet
    /\ \E i \in StopTasks : tasks[i].pc = "new"
    /\ \E reason \in StopReasons :
          Set(Run(StopBegin(World, NextStop, reason, TRUE), NextStop, 0))

\* The process restarts and lifespan resumes the session's engine.
Restart ==
    /\ Quiet
    /\ hist.restarts < MaxRestarts
    /\ db.live_bot_active
    /\ \E i \in (IF db.trades = <<>> THEN {} ELSE IF OpenTrades(db) = {} THEN {0} ELSE OpenTrades(db))
                    \cup (IF db.trades = <<>> THEN {0} ELSE {}) :
          LET b == ResumedBot(db, i)
          IN  /\ bot' = b
              /\ db' = DbSaveLiveBotState(db, b)
              /\ hist' = [hist EXCEPT !.restarts = @ + 1, !.tick_count = 0]
              /\ UNCHANGED <<events, tasks, app, calc, mirror>>

Next == OnTick \/ Stop \/ Restart

Spec == Init /\ [][Next]_vars

(***************************************************************************)
(* Concurrent use: the event loop runs one coroutine at a time from one    *)
(* await to the next; a stop() request is started by its HTTP handler      *)
(* whatever the tick producer's on_tick call is waiting for.               *)
(***************************************************************************)
\* The ticks delivered here: first-quarter ticks at three prices.
AsyncTicks(n) == {tick \in Ticks(n) : tick.quarter = 1 /\ tick.home_price # 56}

\* GameLogger._tick, lines 157-158: on_tick starts and runs to its first await.
TickCall ==
    /\ tasks[TickTask].pc = "idle"
    /\ hist.n_ticks < MaxAsyncTicks
    /\ \E tick \in AsyncTicks(hist.tick_count + 1) : Set(OnTickBegin(World, tick, TRUE))

\* stop_live_bot, line 798: bot.stop() starts and runs to its first await.
StopCall ==
    /\ \E i \in StopTasks : tasks[i].pc = "new"
    /\ \E reason \in StopReasons : Set(StopBegin(World, NextStop, reason, TRUE))

\* The call a coroutine awaits returns and the coroutine runs to its next await.
Step ==
    \E t \in DOMAIN tasks :
        /\ ~Resting(tasks[t].pc)
        /\ Set(Resume(World, t, TRUE))

NextAsync == TickCall \/ StopCall \/ Step

SpecAsync == Init /\ [][NextAsync]_vars

(***************************************************************************)
(* Configuration updates while ticks are processed: update_live_bot_config *)
(* has no await, so update_config runs in one piece, at any point where    *)
(* the on_tick call is suspended or between two ticks.                     *)
(***************************************************************************)
\* What the operator asks for: a higher threshold with a smaller position
\* size, and a bankroll, which is not a strategy parameter.
ConfigRequests == {[momentum_threshold |-> 12, position_size_pct |-> 10],
                   [profit_target |-> 10, bankroll |-> 99900]}

\* update_live_bot_config, lines 824-855.
UpdateConfigCall ==
    /\ hist.config_updates < MaxConfigUpdates
    /\ \E config \in ConfigRequests :
          Set([World EXCEPT !.bot = UpdateConfig(bot, config),
                            !.hist.config_updates = @ + 1])

NextConfig == TickCall \/ Step \/ UpdateConfigCall

SpecConfig == Init /\ [][NextConfig]_vars

(***************************************************************************)
(* Sequential use over a wider range of ticks: prices of 0 (no data) and   *)
(* above 90, the last two minutes of the game, and engines constructed     *)
(* with or without time scaling.                                           *)
(***************************************************************************)
WidePrices == {0, 42, 47, 50, 54, 59, 66, 95}

\* 3600 s left (first quarter, full clock) and 120 s left.
WideGameTimes == {[quarter |-> 1, clock |-> <<"1", "5", ":", "0", "0">>],
                  [quarter |-> 4, clock |-> <<"0", "2", ":", "0", "0">>]}

WideTicks(n) == {[tick |-> n, home_price |-> p, quarter |-> g.quarter, clock |-> g.clock] :
                    p \in WidePrices, g \in WideGameTimes}

\* The engines constructed: the defaults, the defaults without time scaling,
\* and without time scaling a profit target and a breakeven trigger of 0.
WideEngines ==
    {[enable_time_scaling |-> TRUE, profit_target |-> ProfitTarget,
      breakeven_trigger |-> BreakevenTrigger],
     [enable_time_scaling |-> FALSE, profit_target |-> ProfitTarget,
      breakeven_trigger |-> BreakevenTrigger],
     [enable_time_scaling |-> FALSE, profit_target |-> 0, breakeven_trigger |-> 0]}

\* LivePaperBot(..., profit_target, breakeven_trigger, enable_time_scaling)
InitTicks ==
    /\ \E e \in WideEngines :
          EngineStart([NewBot(DefaultBankroll,
                              [DefaultConfig(50) EXCEPT
                                  !.profit_target = e.profit_target,
                                  !.breakeven_trigger = e.breakeven_trigger],
                              1, FALSE)
                          EXCEPT !.enable_time_scaling = e.enable_time_scaling])
    /\ app = AppResumed
    /\ calc = NoCalc
    /\ mirror = NoMirror

\* GameLogger._tick, lines 157-158: await self.bot.on_tick(tick)
OnTickWide ==
    /\ Quiet
    /\ hist.n_ticks < MaxWideTicks
    /\ \E tick \in WideTicks(hist.tick_count + 1) :
          Set(Run(OnTickBegin(World, tick, TRUE), TickTask, 0))

NextTicks == OnTickWide

SpecTicks == InitTicks /\ [][NextTicks]_vars

(***************************************************************************)
(* Sequential use as under SpecTicks, each step noting in hist.given the   *)
(* tick the engine was given and what the engine held before it.           *)
(***************************************************************************)
\* What the engine holds as on_tick is called with tick.
GivenOf(tick) ==
    [tick |-> tick, bankroll |-> bot.bankroll, flat |-> ~HasPosition(bot),
     position |-> bot.position, n_events |-> Len(events)]

\* GameLogger._tick, lines 157-158: await self.bot.on_tick(tick)
OnTickNoted ==
    /\ Quiet
    /\ hist.n_ticks < MaxEntryTicks
    /\ \E tick \in WideTicks(hist.tick_count + 1) :
          Set([Run(OnTickBegin(World, tick, TRUE), TickTask, 0)
                  EXCEPT !.hist.given = GivenOf(tick)])

NextEntry == OnTickNoted

SpecEntry == InitTicks /\ [][NextEntry]_vars

(***************************************************************************)
(* Sequential use of engines constructed with enable_dca: prices that fall *)
(* far enough for additions, a position size that meets the total-risk     *)
(* limit, and a bankroll of two dollars.  Each step notes hist.given.      *)
(***************************************************************************)
DcaPrices == {10, 19, 25, 44, 50, 59}

\* 3600 s left: first quarter, full clock.
DcaTicks(n) == {[tick |-> n, home_price |-> p, quarter |-> 1,
                 clock |-> <<"1", "5", ":", "0", "0">>] : p \in DcaPrices}

\* What start_live_bot is asked for, enable_dca being set.
DcaEngines == {[bankroll |-> DefaultBankroll, position_size_pct |-> 30],
               [bankroll |-> DefaultBankroll, position_size_pct |-> 50],
               [bankroll |-> 200, position_size_pct |-> 30],
               [bankroll |-> 100, position_size_pct |-> 30]}

\* LivePaperBot(..., bankroll, position_size_pct, enable_dca=True)
InitDca ==
    /\ \E e \in DcaEngines :
          EngineStart(NewBot(e.bankroll, DefaultConfig(e.position_size_pct), 1, TRUE))
    /\ app = AppResumed
    /\ calc = NoCalc
    /\ mirror = NoMirror

\* GameLogger._tick, lines 157-158: await self.bot.on_tick(tick)
OnTickDca ==
    /\ Quiet
    /\ hist.n_ticks < MaxDcaTicks
    /\ \E tick \in DcaTicks(hist.tick_count + 1) :
          Set([Run(OnTickBegin(World, tick, TRUE), TickTask, 0)
                  EXCEPT !.hist.given = GivenOf(tick)])

NextDca == OnTickDca

SpecDca == InitDca /\ [][NextDca]_vars

(***************************************************************************)
(* Every operation of the engine in sequence: ticks, top-ups the user can  *)
(* and cannot pay, configuration updates, stop() and a restart, after      *)
(* which the engine has no user.                                           *)
(***************************************************************************)
\* First-quarter ticks at two prices.
OpsTicks(n) == {tick \in Ticks(n) : tick.quarter = 1 /\ tick.home_price \in {40, 70}}

\* 100 dollars, and more than the user has.
TopUpAmounts == {10000, 2 * UserStartBalance}

\* GameLogger._tick, lines 157-158: await self.bot.on_tick(tick)
OnTickOps ==
    /\ Quiet
    /\ hist.n_ticks < MaxOpsTicks
    /\ \E tick \in OpsTicks(hist.tick_count + 1) :
          Set(Run(OnTickBegin(World, tick, TRUE), TickTask, 0))

\* topup_live_bot, line 878: await bot.top_up(amount)
TopUp ==
    /\ Quiet
    /\ hist.topups < MaxTopUps
    /\ \E amount \in TopUpAmounts :
          Set(Run(TopUpBegin(World, TopUpTask, amount, TRUE), TopUpTask, 0))

\* stop_live_bot, line 798: await bot.stop()
StopOps ==
    /\ Quiet
    /\ \E i \in StopTasks : tasks[i].pc = "new"
    /\ Set(Run(StopBegin(World, NextStop, "BOT_STOPPED", TRUE), NextStop, 0))

(***************************************************************************)
(* A freshly constructed engine with averaging down, fed ticks and top-ups *)
(* one after the other: no stop, no restart.                               *)
(***************************************************************************)
\* Prices 40, 50, 75 with 3600 s left: first quarter, full clock.
FundsTicks(n) == {[tick |-> n, home_price |-> p, quarter |-> 1,
                   clock |-> <<"1", "5", ":", "0", "0">>] : p \in {40, 50, 75}}

\* LivePaperBot(..., bankroll=500.0, position_size_pct=30, enable_dca=True)
InitFunds ==
    /\ EngineInit([position_size_pct |-> 30, enable_dca |-> TRUE])
    /\ app = AppResumed
    /\ calc = NoCalc
    /\ mirror = NoMirror

\* GameLogger._tick, lines 157-158: await self.bot.on_tick(tick)
OnTickFunds ==
    /\ Quiet
    /\ hist.n_ticks < MaxFundsTicks
    /\ \E tick \in FundsTicks(hist.tick_count + 1) :
          Set([Run(OnTickBegin(World, tick, TRUE), TickTask, 0)
                  EXCEPT !.hist.given = GivenOf(tick)])

NextFunds == OnTickFunds \/ TopUp

SpecFunds == InitFunds /\ [][NextFunds]_vars

(***************************************************************************)
(* Engines with and without averaging down, and one whose stop is below    *)
(* the trigger of the additions, fed ticks early and late in the game at   *)
(* prices five cents apart.  Each step notes hist.given.                   *)
(***************************************************************************)
\* Prices 40, 45, 50 with 3600 s and with 420 s left.
WindowTicks(n) ==
    {[tick |-> n, home_price |-> p, quarter |-> g.quarter, clock |-> g.clock] :
        p \in {40, 45, 50},
        g \in {[quarter |-> 1, clock |-> <<"1", "5", ":", "0", "0">>],
               [quarter |-> 4, clock |-> <<"7", ":", "0", "0">>]}}

WindowEngines == {[enable_dca |-> TRUE, initial_stop |-> InitialStop],
                  [enable_dca |-> FALSE, initial_stop |-> InitialStop],
                  [enable_dca |-> TRUE, initial_stop |-> 3]}

\* LivePaperBot(..., initial_stop, position_size_pct=30, enable_dca)
InitWindow ==
    /\ \E e \in WindowEngines :
          EngineStart(NewBot(DefaultBankroll,
                             [DefaultConfig(30) EXCEPT !.initial_stop = e.initial_stop],
                             1, e.enable_dca))
    /\ app = AppResumed
    /\ calc = NoCalc
    /\ mirror = NoMirror

\* GameLogger._tick, lines 157-158: await self.bot.on_tick(tick)
OnTickWindow ==
    /\ Quiet
    /\ hist.n_ticks < MaxWindowTicks
    /\ \E tick \in WindowTicks(hist.tick_count + 1) :
          Set([Run(OnTickBegin(World, tick, TRUE), TickTask, 0)
                  EXCEPT !.hist.given = GivenOf(tick)])

NextWindow == OnTickWindow

SpecWindow == InitWindow /\ [][NextWindow]_vars

(***************************************************************************)
(* Two engines of the same configuration and bankroll, game-context        *)
(* filtering off: one is fed the home prices p, the other 100 - p, tick by *)
(* tick with the same clocks.                                              *)
(***************************************************************************)
\* Prices 41, 43, 50, 57, 59 with 3600 s left.
MirrorTicks(n) == {[tick |-> n, home_price |-> p, quarter |-> 1,
                    clock |-> <<"1", "5", ":", "0", "0">>] : p \in {41, 43, 50, 57, 59}}

\* The tick of the reflected market.
Reflected(tick) == [tick EXCEPT !.home_price = 100 - @]

\* LivePaperBot(..., position_size_pct=30, enable_dca, enable_game_context=False),
\* twice.
InitMirror ==
    /\ \E dca \in BOOLEAN :
          EngineStart([NewBot(DefaultBankroll, DefaultConfig(30), 1, dca)
                          EXCEPT !.enable_game_context = FALSE])
    /\ app = AppResumed
    /\ calc = NoCalc
    /\ mirror = World

\* GameLogger._tick, lines 157-158: await self.bot.on_tick(tick), in both engines.
OnTickMirror ==
    /\ Quiet
    /\ hist.n_ticks < MaxMirrorTicks
    /\ \E tick \in MirrorTicks(hist.tick_count + 1) :
          /\ bot' = Run(OnTickBegin(World, tick, TRUE), TickTask, 0).bot
          /\ db' = Run(OnTickBegin(World, tick, TRUE), TickTask, 0).db
          /\ events' = Run(OnTickBegin(World, tick, TRUE), TickTask, 0).events
          /\ tasks' = Run(OnTickBegin(World, tick, TRUE), TickTask, 0).tasks
          /\ hist' = [Run(OnTickBegin(World, tick, TRUE), TickTask, 0).hist
                         EXCEPT !.given = GivenOf(tick)]
          /\ mirror' = Run(OnTickBegin(mirror, Reflected(tick), TRUE), TickTask, 0)
    /\ UNCHANGED <<app, calc>>

NextMirror == OnTickMirror

SpecMirror == InitMirror /\ [][NextMirror]_vars

(***************************************************************************)
(* The user's balance under main.py's handlers for one event ticker.  In   *)
(* this specification app holds the balance of the user's row, the         *)
(* registry active_live_bots (0: no entry), the engines constructed with   *)
(* their bankrolls, and the requests in flight, each with its position     *)
(* (pc) at an await and its locals.  A step runs one request from one      *)
(* await to the next: the awaited storage call takes effect and the code   *)
(* after it runs.  The engines make no trades here.                        *)
(***************************************************************************)
RegistryEmpty ==
    [balance |-> UserStartBalance, active_live_bots |-> 0, engines |-> <<>>,
     calls |-> <<>>, wallet_transactions |-> 0]

\* start_live_bot has run once: 500.00 allocated to the registered engine.
RegistryRunning ==
    [RegistryEmpty EXCEPT !.balance = UserStartBalance - DefaultBankroll,
                          !.active_live_bots = 1,
                          !.engines = <<[bankroll |-> DefaultBankroll,
                                         allocated |-> DefaultBankroll,
                                         topped_up |-> 0, is_active |-> TRUE]>>,
                          !.wallet_transactions = 1]

\* A request that has returned or raised.
Answered(kind) == [kind |-> kind, pc |-> "done", bot |-> 0, balance |-> 0, amount |-> 0]

\* A request waiting for db.get_user_by_id.
Asking(kind, engine, amount) ==
    [kind |-> kind, pc |-> "get_user", bot |-> engine, balance |-> 0, amount |-> amount]

\* start_live_bot, lines 734-741: the registry check, then await db.get_user_by_id.
StartCall ==
    /\ Len(app.calls) < MaxFundCalls
    /\ app' = [app EXCEPT !.calls =
                  Append(@, IF app.active_live_bots # 0 THEN Answered("start")
                            ELSE Asking("start", 0, DefaultBankroll))]
    /\ UNCHANGED <<engine_vars, calc, mirror>>

\* topup_live_bot, lines 863-878, and top_up, lines 509-513.
TopUpCall ==
    /\ Len(app.calls) < MaxFundCalls
    /\ app' = [app EXCEPT !.calls =
                  Append(@, IF app.active_live_bots = 0 THEN Answered("topup")
                            ELSE Asking("topup", app.active_live_bots, 10000))]
    /\ UNCHANGED <<engine_vars, calc, mirror>>

\* stop_live_bot, lines 794-798, and stop, lines 555-569: the engine has no
\* position; with a bankroll above 0 it awaits db.get_user_by_id.
StopLiveBotCall ==
    /\ Len(app.calls) < MaxFundCalls
    /\ app' = IF app.active_live_bots = 0
              THEN [app EXCEPT !.calls = Append(@, Answered("stop"))]
              ELSE [app EXCEPT !.engines[app.active_live_bots].is_active = FALSE,
                               !.calls = Append(@, Asking("stop", app.active_live_bots, 0))]
    /\ UNCHANGED <<engine_vars, calc, mirror>>

\* db.get_user_by_id returns.  start_live_bot, lines 741-752, top_up, lines
\* 513-521, stop, lines 569-572: the new balance is computed from the balance
\* read and db.update_user_balance awaited.
GotUser(a, i) ==
    LET c == a.calls[i]
    IN  IF c.kind = "stop"
        THEN [a EXCEPT !.calls[i].pc = "update_balance",
                       !.calls[i].amount = a.engines[c.bot].bankroll,
                       !.calls[i].balance = a.balance + a.engines[c.bot].bankroll]
        ELSE IF a.balance < c.amount
        THEN [a EXCEPT !.calls[i].pc = "done"]
        ELSE [a EXCEPT !.calls[i].pc = "update_balance",
                       !.calls[i].balance = a.balance - c.amount]

\* db.update_user_balance writes the balance the caller computed.
BalanceUpdated(a, i) ==
    [a EXCEPT !.balance = a.calls[i].balance, !.calls[i].pc = "add_transaction"]

\* db.add_wallet_transaction returns.  start_live_bot, lines 762-776: the
\* engine is made and initialize awaited; top_up, lines 532-535; stop, line 581.
TransactionAdded(a, i) ==
    LET c == a.calls[i]
        a1 == [a EXCEPT !.wallet_transactions = @ + 1]
    IN  IF c.kind = "start"
        THEN [a1 EXCEPT !.engines = Append(@, [bankroll |-> c.amount, allocated |-> c.amount,
                                               topped_up |-> 0, is_active |-> TRUE]),
                        !.calls[i].bot = Len(a.engines) + 1,
                        !.calls[i].pc = "last_await"]
        ELSE IF c.kind = "topup"
        THEN [a1 EXCEPT !.engines[c.bot].bankroll = @ + c.amount,
                        !.engines[c.bot].topped_up = @ + c.amount,
                        !.calls[i].pc = "last_await"]
        ELSE [a1 EXCEPT !.calls[i].pc = "last_await"]

\* initialize returns and start_live_bot, line 778, registers the engine;
\* db.update_live_bot_bankroll returns to top_up; db.stop_live_bot returns and
\* stop_live_bot, line 803, deletes the registry entry (KeyError when it is
\* gone).
Returned(a, i) ==
    LET c == a.calls[i]
    IN  IF c.kind = "start"
        THEN [a EXCEPT !.active_live_bots = c.bot, !.calls[i].pc = "done"]
        ELSE IF c.kind = "stop"
        THEN [a EXCEPT !.active_live_bots = 0, !.calls[i].pc = "done"]
        ELSE [a EXCEPT !.calls[i].pc = "done"]

\* One request runs from the await it is at to its next one.
CallResumes ==
    /\ \E i \in DOMAIN app.calls :
          /\ app.calls[i].pc # "done"
          /\ app' = CASE app.calls[i].pc = "get_user" -> GotUser(app, i)
                      [] app.calls[i].pc = "update_balance" -> BalanceUpdated(app, i)
                      [] app.calls[i].pc = "add_transaction" -> TransactionAdded(app, i)
                      [] app.calls[i].pc = "last_await" -> Returned(app, i)
    /\ UNCHANGED <<engine_vars, calc, mirror>>

InitRegistry ==
    /\ EngineInit([position_size_pct |-> 50, enable_dca |-> FALSE])
    /\ app \in {RegistryEmpty, RegistryRunning}
    /\ calc = NoCalc
    /\ mirror = NoMirror

NextRegistry == StartCall \/ TopUpCall \/ StopLiveBotCall \/ CallResumes

SpecRegistry == InitRegistry /\ [][NextRegistry]_vars

\* start_live_bot asked for the defaults.
InitOps ==
    /\ EngineInit([position_size_pct |-> 50, enable_dca |-> FALSE])
    /\ app = AppResumed
    /\ calc = NoCalc
    /\ mirror = NoMirror

NextOps == OnTickOps \/ TopUp \/ UpdateConfigCall \/ StopOps \/ Restart

SpecOps == InitOps /\ [][NextOps]_vars

(***************************************************************************)
(* The engine's pure helpers, each evaluated once on arguments drawn from  *)
(* the sets below: calc holds the arguments and then the results.          *)
(***************************************************************************)
\* Every text of at most n characters of the alphabet.
RECURSIVE TextsOver(_, _)
TextsOver(alphabet, n) ==
    IF n = 0 THEN {<<>>}
    ELSE LET shorter == TextsOver(alphabet, n - 1)
         IN  shorter \cup {Append(t, c) : t \in shorter, c \in alphabet}

ClockAlphabet == {"0", "5", ":", ".", " ", "-"}

\* str(clock) for clocks as the feed gives them and for malformed ones.
ListedClocks ==
    {<<"1", "5", ":", "0", "0">>, <<"0", "0", ":", "0", "0">>,
     <<"0", "8", ":", "0", "0">>, <<"0", "2", ":", "0", "0">>,
     <<"0", "7", ":", "3", "0">>, <<"1", "2", ":", "3", "4">>,
     <<"9", "9", ":", "9", "9">>, <<"1", "2", ":", "x", "x">>,
     <<"a", "b", "c">>, <<"1", ":", "2", ":", "3">>, <<"1", "2", ".", "5">>,
     <<" ", "1", "2", ":", "3", "0", " ">>, <<"-", "1", ":", "3", "0">>,
     <<"1", "e", "2">>, <<"1", "e", "-", "1">>, <<"1", ".", "5", "e", "1">>,
     <<"i", "n", "f">>, <<"n", "a", "n">>, <<"1", "e", "9", "9", "9">>,
     <<"9", "0", "0">>, <<"-", "5", "0", "0">>, <<"N", "o", "n", "e">>,
     <<"+", "4", "5">>, <<"4", "0", "0", "0">>, <<"1", "2", ":">>,
     <<"1", " ", "5", ":", "0", "0">>, <<"2", "e", "9">>}

ClockTexts == ListedClocks \cup TextsOver(ClockAlphabet, MaxClockLen)

\* quarter: before the game (0), the four quarters, after them, and out of range.
Periods == -1..6

\* base_stop and base_target.
Bases == {-5, 0, 1, 2, 8, 15, 25, 100}

\* Multipliers, in tenths.
Mults10 == {0, 7, 13, 15, 30}

ExitClocks == {<<"1", "5", ":", "0", "0">>, <<"0", "7", ":", "3", "0">>,
               <<"0", "0", ":", "0", "0">>, <<"a", "b", "c">>}

TimeInputs ==
    {[kind |-> "time", done |-> FALSE, quarter |-> q, clock |-> c] :
        q \in Periods, c \in ClockTexts}

ExitInputs ==
    {[kind |-> "exits", done |-> FALSE, enable_time_scaling |-> s, base |-> base,
      early10 |-> e, late10 |-> l, quarter |-> q, clock |-> c] :
        s \in BOOLEAN, base \in Bases, e \in Mults10, l \in Mults10,
        q \in 0..5, c \in ExitClocks}

\* Bankrolls in cents, position_size_pct in percent, dca_count.
DcaInputs ==
    {[kind |-> "dca", done |-> FALSE, starting_bankroll |-> sb, bankroll |-> bk,
      position_size_pct |-> pct, dca_count |-> k] :
        sb \in {50000, 100000}, bk \in {0, 25000, 50000, 100000},
        pct \in {30, 50}, k \in 0..(DcaMaxAdditions - 1)}

InitCalc ==
    /\ EngineStart(NewBot(DefaultBankroll, DefaultConfig(50), 1, FALSE))
    /\ app = AppResumed
    /\ calc \in TimeInputs \cup ExitInputs \cup DcaInputs
    /\ mirror = NoMirror

\* _calculate_time_remaining(quarter, clock)
TimeRemainingCall ==
    /\ calc.kind = "time" /\ ~calc.done
    /\ calc' = [kind |-> "time", done |-> TRUE, quarter |-> calc.quarter,
                clock |-> calc.clock,
                time_remaining |-> CalculateTimeRemaining(calc.quarter, calc.clock)]
    /\ UNCHANGED <<engine_vars, app, mirror>>

\* _calculate_dynamic_stop(base, tick) and _calculate_dynamic_target(base, tick)
\* on an engine constructed with the given multipliers.
DynamicExitsCall ==
    /\ calc.kind = "exits" /\ ~calc.done
    /\ LET b == [NewBot(DefaultBankroll, DefaultConfig(50), 1, FALSE) EXCEPT
                    !.enable_time_scaling = calc.enable_time_scaling,
                    !.early_game_stop_mult10 = calc.early10,
                    !.late_game_stop_mult10 = calc.late10,
                    !.early_game_target_mult10 = calc.early10,
                    !.late_game_target_mult10 = calc.late10]
           tick == [quarter |-> calc.quarter, clock |-> calc.clock]
       IN  calc' = [kind |-> "exits", done |-> TRUE,
                    enable_time_scaling |-> calc.enable_time_scaling,
                    base |-> calc.base, early10 |-> calc.early10, late10 |-> calc.late10,
                    quarter |-> calc.quarter, clock |-> calc.clock,
                    stop |-> CalculateDynamicStop(b, calc.base, tick),
                    target |-> CalculateDynamicTarget(b, calc.base, tick)]
    /\ UNCHANGED <<engine_vars, app, mirror>>

\* _check_dca, lines 864-866, on an engine whose bankroll has moved away from
\* its starting bankroll.
DcaSizeCall ==
    /\ calc.kind = "dca" /\ ~calc.done
    /\ LET b == [NewBot(calc.starting_bankroll, DefaultConfig(calc.position_size_pct),
                        1, TRUE) EXCEPT !.bankroll = calc.bankroll]
       IN  calc' = [kind |-> "dca", done |-> TRUE,
                    starting_bankroll |-> calc.starting_bankroll,
                    bankroll |-> calc.bankroll,
                    position_size_pct |-> calc.position_size_pct,
                    dca_count |-> calc.dca_count,
                    num |-> DcaSizeNum(b, calc.dca_count),
                    den |-> DcaSizeDen(calc.dca_count)]
    /\ UNCHANGED <<engine_vars, app, mirror>>

NextCalc == TimeRemainingCall \/ DynamicExitsCall \/ DcaSizeCall

SpecCalc == InitCalc /\ [][NextCalc]_vars

(***************************************************************************)
(* Sequential use with a failing store: during each on_tick at most one    *)
(* awaited call raises.  hist.intended is the position and bankroll the    *)
(* same tick gives when no call raises.                                    *)
(***************************************************************************)
\* The awaited calls of one on_tick: opening price, bankroll, trade, two broadcasts.
FailAt == 0..5

OnTickFailing ==
    /\ Quiet
    /\ hist.n_ticks < MaxFailTicks
    /\ \E tick \in Ticks(hist.tick_count + 1), k \in FailAt :
          LET Noting(got, good) ==
                  [got EXCEPT !.hist.intended = [position |-> good.bot.position,
                                                 bankroll |-> good.bot.bankroll]]
          IN  Set(Noting(Run(OnTickBegin(World, tick, k # 1), TickTask, k - 1),
                         Run(OnTickBegin(World, tick, TRUE), TickTask, 0)))

NextFail == OnTickFailing

SpecFail == Init /\ [][NextFail]_vars

(***************************************************************************)
(* The tick producer and the HTTP handlers of one session.  A GameLogger   *)
(* runs start() as one task; a handler runs from one await to the next.    *)
(* The engines are followed only as callees of on_tick.                    *)
(***************************************************************************)
NoRequest == [kind |-> "none", pc |-> "done", bot |-> 0]

Pending(kind) == Cardinality({i \in DOMAIN app.requests : app.requests[i].kind = kind})

Request(kind, pc, engine) ==
    /\ app' = [app EXCEPT !.requests = Append(@, [kind |-> kind, pc |-> pc, bot |-> engine])]
    /\ UNCHANGED <<engine_vars, calc, mirror>>

Answer ==
    /\ app' = [app EXCEPT !.requests = Append(@, NoRequest)]
    /\ UNCHANGED <<engine_vars, calc, mirror>>

\* start_logging, lines 539-543: the registry check, then await db.get_session.
StartLogging ==
    /\ Len(app.requests) < MaxRequests
    /\ Len(app.loggers) + Pending("start_logging") < MaxLoggers
    /\ IF app.active_loggers # 0 THEN Answer
       ELSE Request("start_logging", "get_session", 0)

\* start_logging, lines 545-564: the logger is created, registered and its
\* task scheduled.
StartLoggingCreates ==
    \E i \in DOMAIN app.requests :
        /\ app.requests[i].pc = "get_session"
        /\ app' = [app EXCEPT !.loggers = Append(@, NewLogger(app.last_tick)),
                              !.active_loggers = Len(app.loggers) + 1,
                              !.requests[i] = NoRequest]
        /\ UNCHANGED <<engine_vars, calc, mirror>>

\* stop_logging, lines 570-579; GameLogger.stop has no await in it.
StopLogging ==
    /\ Len(app.requests) < MaxRequests
    /\ app.active_loggers # 0
    /\ app' = [app EXCEPT !.loggers[app.active_loggers].is_running = FALSE,
                          !.active_loggers = 0,
                          !.requests = Append(@, NoRequest)]
    /\ UNCHANGED <<engine_vars, calc, mirror>>

\* start_live_bot, lines 734-741: the two registry checks, then await
\* db.get_user_by_id.
StartLiveBot ==
    /\ Len(app.requests) < MaxRequests
    /\ Len(app.engines) + Pending("start_live_bot") < MaxEngines
    /\ IF app.active_loggers = 0 \/ app.active_live_bots # 0 THEN Answer
       ELSE Request("start_live_bot", "get_user", 0)

\* start_live_bot, lines 751-776: the allocation is taken, the bot is made and
\* initialize awaits the store.
StartLiveBotInitializes ==
    \E i \in DOMAIN app.requests :
        /\ app.requests[i].pc = "get_user"
        /\ app' = [app EXCEPT !.engines = Append(@, NewEngine),
                              !.requests[i].pc = "initialize",
                              !.requests[i].bot = Len(app.engines) + 1]
        /\ UNCHANGED <<engine_vars, calc, mirror>>

\* start_live_bot, lines 778-779: the bot is registered and attached to the
\* logger registered now (KeyError when there is none).
StartLiveBotAttaches ==
    \E i \in DOMAIN app.requests :
        /\ app.requests[i].pc = "initialize"
        /\ app' = [app EXCEPT !.active_live_bots = app.requests[i].bot,
                              !.loggers = [l \in DOMAIN app.loggers |->
                                              IF l = app.active_loggers
                                              THEN [app.loggers[l] EXCEPT
                                                       !.bot = app.requests[i].bot]
                                              ELSE app.loggers[l]],
                              !.requests[i] = NoRequest]
        /\ UNCHANGED <<engine_vars, calc, mirror>>

\* stop_live_bot, lines 794-798: bot.stop() runs to its first await.
StopLiveBot ==
    /\ Len(app.requests) < MaxRequests
    /\ IF app.active_live_bots = 0 THEN Answer
       ELSE /\ app' = [app EXCEPT !.engines[app.active_live_bots].is_active = FALSE,
                                  !.requests = Append(@, [kind |-> "stop_live_bot",
                                                          pc |-> "stop",
                                                          bot |-> app.active_live_bots])]
            /\ UNCHANGED <<engine_vars, calc, mirror>>

\* stop_live_bot, lines 800-803: whatever bot the registered logger holds is
\* detached and the registry entry deleted (KeyError when it is gone).
StopLiveBotDetaches ==
    \E i \in DOMAIN app.requests :
        /\ app.requests[i].pc = "stop"
        /\ app' = [app EXCEPT !.loggers = [l \in DOMAIN app.loggers |->
                                              IF l = app.active_loggers
                                              THEN [app.loggers[l] EXCEPT !.bot = 0]
                                              ELSE app.loggers[l]],
                              !.active_live_bots = 0,
                              !.requests[i] = NoRequest]
        /\ UNCHANGED <<engine_vars, calc, mirror>>

\* GameLogger.start, lines 74-78: the task starts.
LoggerStarts ==
    \E l \in DOMAIN app.loggers :
        /\ app.loggers[l].pc = "created"
        /\ app' = [app EXCEPT !.loggers[l].is_running = TRUE,
                              !.loggers[l].pc = "team_info"]
        /\ UNCHANGED <<engine_vars, calc, mirror>>

\* A loop that goes on while the on_tick it started is still outstanding.
AtLoopHeadNoAwait(lg) == lg.pc \in {"team_info", "sleep", "on_tick"}

\* GameLogger.start, lines 80-83: the loop comes back to its condition only
\* when _tick and the sleep after it have returned.
AtLoopHead(lg) == lg.pc \in {"team_info", "sleep"}

\* GameLogger.start, line 80, and _tick, lines 137-151.
LoopTurn ==
    \E l \in DOMAIN app.loggers :
        /\ AtLoopHead(app.loggers[l])
        /\ IF app.loggers[l].is_running
           THEN /\ app.loggers[l].produced < MaxLoggerTicks
                /\ app' = [app EXCEPT !.loggers[l].tick_count = @ + 1,
                                      !.loggers[l].produced = @ + 1,
                                      !.loggers[l].pc = "fetch",
                                      !.loggers[l].calling = 0]
           ELSE app' = [app EXCEPT !.loggers[l].pc = "ended"]
        /\ UNCHANGED <<engine_vars, calc, mirror>>

\* _tick, lines 150-158: the tick is stored and handed to the attached bot; an
\* engine that is not active returns at once.
CallOnTick ==
    \E l \in DOMAIN app.loggers :
        LET lg == app.loggers[l]
            e == lg.bot
        IN  /\ lg.pc = "fetch"
            /\ app' = IF e = 0 \/ ~app.engines[e].is_active
                      THEN [app EXCEPT !.loggers[l].pc = "broadcast",
                                       !.last_tick = Max(@, lg.tick_count)]
                      ELSE [app EXCEPT !.loggers[l].pc = "on_tick",
                                       !.loggers[l].calling = e,
                                       !.last_tick = Max(@, lg.tick_count),
                                       !.engines[e].in_flight = @ + 1,
                                       !.engines[e].received = @ + 1,
                                       !.engines[e].in_order =
                                           @ /\ lg.tick_count > app.engines[e].last_tick,
                                       !.engines[e].last_tick = lg.tick_count]
            /\ UNCHANGED <<engine_vars, calc, mirror>>

\* on_tick returns or raises; start, lines 86-88, catches what it raises.
OnTickReturns ==
    \E l \in DOMAIN app.loggers, raised \in BOOLEAN :
        /\ app.loggers[l].pc = "on_tick"
        /\ app' = [app EXCEPT !.engines[app.loggers[l].calling].in_flight = @ - 1,
                              !.loggers[l].pc = IF raised THEN "sleep" ELSE "broadcast"]
        /\ UNCHANGED <<engine_vars, calc, mirror>>

\* _tick, lines 161-179, then the sleep of start, line 83.
TickBroadcast ==
    \E l \in DOMAIN app.loggers :
        /\ app.loggers[l].pc = "broadcast"
        /\ app' = [app EXCEPT !.loggers[l].pc = "sleep"]
        /\ UNCHANGED <<engine_vars, calc, mirror>>

InitLogger ==
    /\ EngineInit([position_size_pct |-> 50, enable_dca |-> FALSE])
    /\ app \in {AppEmpty, AppResumed}
    /\ calc = NoCalc
    /\ mirror = NoMirror

NextLogger ==
    \/ StartLogging \/ StartLoggingCreates \/ StopLogging
    \/ StartLiveBot \/ StartLiveBotInitializes \/ StartLiveBotAttaches
    \/ StopLiveBot \/ StopLiveBotDetaches
    \/ LoggerStarts \/ LoopTurn \/ CallOnTick \/ OnTickReturns \/ TickBroadcast

SpecLogger == InitLogger /\ [][NextLogger]_vars

(***************************************************************************)
(* Properties.                                                             *)
(***************************************************************************)
\* What the closed positions really made: proceeds less everything paid for
\* them, DCA additions included.
RECURSIVE SumNet(_)
SumNet(exits) ==
    IF exits = <<>> THEN 0
    ELSE Head(exits).proceeds - Head(exits).total_cost + SumNet(Tail(exits))

\* The pnl the exits recorded.
RECURSIVE SumRecorded(_)
SumRecorded(exits) ==
    IF exits = <<>> THEN 0 ELSE Head(exits).pnl + SumRecorded(Tail(exits))

OpenTotalCost == IF HasPosition(bot) THEN bot.position.total_cost ELSE 0

StopReturned == \E i \in StopTasks : tasks[i].pc = "done" /\ ~tasks[i].raised

TradeEvents == SelectSeq(events, LAMBDA e : e.type \in {"live_bot_entry", "live_bot_exit"})

BotStopTransactions ==
    {i \in DOMAIN db.wallet_transactions : db.wallet_transactions[i].tx_type = "bot_stop"}

\* C1 as stated: startingBankroll = bankroll + totalCost of the open position
\* + the sum of the realized pnl of the closed trades, in every state.
C1_ConservationPlusPnl ==
    bot.starting_bankroll = bot.bankroll + OpenTotalCost + SumRecorded(hist.exits)

\* C1, amended: startingBankroll = bankroll + totalCost of the open position
\* - the sum over the closed trades of (proceeds - totalCost): the funds that
\* left the bankroll are in the open position or were lost, and gains came in.
C1_Conservation ==
    bot.starting_bankroll = bot.bankroll + OpenTotalCost - SumNet(hist.exits)

\* A position with a DCA addition was closed at a gain or loss and another
\* position is open.
C1_Witness ==
    /\ hist.dca_fills > 0
    /\ hist.exits # <<>>
    /\ SumNet(hist.exits) # 0
    /\ \E i \in DOMAIN hist.exits : hist.exits[i].total_cost # hist.exits[i].proceeds

\* C2: the pnl of every exit is its proceeds less the position's totalCost,
\* the cost of every DCA addition included.
C2_PnlIsProceedsLessTotalCost ==
    \A i \in DOMAIN hist.exits :
        hist.exits[i].pnl = hist.exits[i].proceeds - hist.exits[i].total_cost

\* C3: no entry and no DCA addition takes the bankroll below zero.
C3_BankrollNeverNegative == bot.bankroll >= 0

\* C4: entry and exit events alternate, the first being an entry; the engine
\* holds a position exactly when one more position was opened than closed;
\* with nothing opened it is flat.
C4_OnePosition ==
    /\ \A i \in DOMAIN TradeEvents :
          TradeEvents[i].type = IF i % 2 = 1 THEN "live_bot_entry" ELSE "live_bot_exit"
    /\ hist.opened = Len(hist.exits) + (IF HasPosition(bot) THEN 1 ELSE 0)
    /\ hist.opened = 0 => ~HasPosition(bot)

\* A second position is open after the first one, grown by a DCA addition or
\* not, was closed.
C4_Witness ==
    /\ Len(TradeEvents) >= 3
    /\ HasPosition(bot)
    /\ hist.opened = 2

\* C5: when stop() has returned the engine holds no position.
C5_StopClosesPosition == StopReturned => ~HasPosition(bot)

\* C6: however often stop() is called, one 'bot_stop' transaction at most is
\* recorded and the balance is credited once.
C6_StopCreditsOnce ==
    /\ Cardinality(BotStopTransactions) <= 1
    /\ db.current_balance <= UserStartBalance - DefaultBankroll + Max(bot.bankroll, 0)

\* C7: under every interleaving of on_tick and stop() calls no position is
\* closed twice.
C7_ClosedOnce ==
    \A i, j \in DOMAIN hist.exits :
        hist.exits[i].opened = hist.exits[j].opened => i = j

\* C8: after an on_tick in which an awaited call raised, the position and the
\* bankroll are those the tick gives when no call raises.
C8_FailureKeepsMemory ==
    /\ bot.position = hist.intended.position
    /\ bot.bankroll = hist.intended.bankroll

\* C9: once stop() has returned, an on_tick changes nothing of the engine,
\* makes no Database call and emits nothing.
C9_InertAfterStop ==
    [][(StopReturned /\ hist'.n_ticks # hist.n_ticks)
          => /\ bot' = bot
             /\ db' = db
             /\ events' = events
             /\ hist'.wallet_broadcasts = hist.wallet_broadcasts
             /\ hist'.raised = hist.raised]_vars

\* on_tick was called on a stopped engine that had prices in its history.
C9_Witness ==
    /\ StopReturned
    /\ hist.inert_ticks > 0
    /\ bot.price_history # <<>>

\* C11: the config snapshot saved with every trade is the configuration its
\* entry was decided with, whenever update_config is called.
C11_SnapshotIsDecisionConfig ==
    \A i \in DOMAIN db.trades : db.trades[i].config_snapshot = db.trades[i].decided_with

\* C10: no engine has two on_tick calls outstanding, and the ticks an engine
\* gets come in increasing order.
C10_OneTickAtATime ==
    \A e \in DOMAIN app.engines :
        app.engines[e].in_flight <= 1 /\ app.engines[e].in_order

\* An engine has got its second tick while a second logger runs and an
\* on_tick call is outstanding.
C10_Witness ==
    /\ Len(app.loggers) >= 2
    /\ \E e \in DOMAIN app.engines :
          app.engines[e].received >= 2 /\ app.engines[e].in_flight = 1
    /\ \E l \in DOMAIN app.loggers : app.loggers[l].is_running /\ app.loggers[l].bot = 0

(***************************************************************************)
(* C12.  A tick whose home price is 0, handed to an active engine, changes *)
(* nothing: the engine's fields (price history, opening price, position    *)
(* with its watermarks, bankroll, counters) are as before, no Database     *)
(* call is made and nothing is broadcast, with and without a position.     *)
(***************************************************************************)
NoDataTicks == hist.nodata_flat + hist.nodata_open

C12_NoDataTickChangesNothing ==
    [][NoDataTicks' > NoDataTicks
          => /\ bot' = bot
             /\ db' = db
             /\ events' = events
             /\ hist'.wallet_broadcasts = hist.wallet_broadcasts]_vars

\* A price of 0 has come both to a flat engine and to one with a position.
C12_Witness == hist.nodata_flat > 0 /\ hist.nodata_open > 0 /\ HasPosition(bot)

(***************************************************************************)
(* C13.  Breakeven protection: once the gain of a position over its        *)
(* average entry price has reached breakeven_trigger on a tick, the stop   *)
(* rule never closes it at a price worse than the average entry price.     *)
(* In the exit records, armed tells that the gain had reached the trigger  *)
(* on the closing tick or on an earlier one.                               *)
(***************************************************************************)
NoLoss(e) ==
    IF e.side = "long" THEN e.price >= e.avg_entry_price
    ELSE e.price <= e.avg_entry_price

C13_BreakevenLocksNoLoss ==
    \A i \in DOMAIN hist.exits :
        LET e == hist.exits[i]
        IN  e.armed /\ e.reason \in {"STOP", "BREAKEVEN"} => NoLoss(e)

(***************************************************************************)
(* C14.  The stop-loss scenario: an engine without time scaling, with      *)
(* initial_stop 8 and breakeven_trigger 5, enters long at 50 and is then   *)
(* given the prices 54 and 47.  LongAt50(k) tells that the long entered at *)
(* 50, k ticks before the latest one, is either still held or is the       *)
(* position closed last.                                                   *)
(***************************************************************************)
LastThree == SubSeq(bot.price_history, Len(bot.price_history) - 2, Len(bot.price_history))

HeldFrom50(k) ==
    /\ bot.position.side = "long"
    /\ bot.position.entry_price = 50
    /\ bot.position.entry_tick = hist.tick_count - k

ClosedFrom50(k) ==
    /\ hist.exits # <<>>
    /\ Last(hist.exits).side = "long"
    /\ Last(hist.exits).entry_price = 50
    /\ Last(hist.exits).entry_tick = hist.tick_count - k

StopScenario ==
    /\ ~bot.enable_time_scaling
    /\ bot.initial_stop = 8
    /\ bot.breakeven_trigger = 5
    /\ Len(bot.price_history) >= 3
    /\ LastThree = <<50, 54, 47>>
    /\ HeldFrom50(2) \/ ClosedFrom50(2)

\* C14 as stated: after 50, 54, 47 the position has been closed at 47 with
\* reason STOP.
C14_StoppedAt47 ==
    StopScenario => /\ ~HasPosition(bot)
                    /\ Last(hist.exits).reason = "STOP"
                    /\ Last(hist.exits).price = 47

\* C14 amended: after 50, 54, 47 the position is still held, the stop price
\* being 50 - 8 = 42; without time scaling a long whose average entry price is
\* 50 is closed with STOP at prices of 42 or less only, is never closed with
\* BREAKEVEN, and is not held past a price of 42 or less.
C14_StopAt42 ==
    /\ StopScenario => HeldFrom50(2)
    /\ ~bot.enable_time_scaling =>
          /\ \A i \in DOMAIN hist.exits :
                LET e == hist.exits[i]
                IN  e.side = "long" /\ e.avg_entry_price = 50 =>
                       /\ e.reason = "STOP" => e.price <= 42
                       /\ e.reason # "BREAKEVEN"
          /\ bot.position.side = "long" /\ bot.position.avg_entry_price = 50
                => Last(bot.price_history) > 42

\* The prices 50, 54, 47 have been given and the position is held.
C14_Witness == StopScenario /\ HeldFrom50(2)

\* A long entered at 50 has been closed with STOP at 42.
C14_WitnessStop ==
    /\ ~bot.enable_time_scaling
    /\ \E i \in DOMAIN hist.exits :
          /\ hist.exits[i].side = "long" /\ hist.exits[i].avg_entry_price = 50
          /\ hist.exits[i].reason = "STOP" /\ hist.exits[i].price = 42

(***************************************************************************)
(* C15.  The profit target.  Checked is the latest call of _check_exit:    *)
(* the tick it was given and the position it found.                        *)
(***************************************************************************)
Checked == hist.exit_check

\* That call closed the position with the given reason.
ClosedAs(reason) ==
    /\ ~HasPosition(bot)
    /\ hist.exits # <<>>
    /\ Last(hist.exits).opened = Checked.opened
    /\ Last(hist.exits).price = Checked.price
    /\ Last(hist.exits).reason = reason

\* That call left the position open.
StillHeld == HasPosition(bot) /\ bot.position.opened = Checked.opened

\* A long with average entry price 50 and profit_target 15 checked at 66.
ProfitScenario ==
    /\ Checked.checked
    /\ Checked.side = "long" /\ Checked.avg_entry_price = 50 /\ Checked.price = 66
    /\ bot.profit_target = 15

\* C15 as stated: whatever the other settings and the game time of the tick,
\* the long entered at 50 with profit_target 15 is closed with PROFIT at 66.
C15_ProfitAt66 == ProfitScenario => ClosedAs("PROFIT")

\* C15 amended: a position is closed with PROFIT by exactly the ticks on which
\* its gain is at least the current target, whether or not the stop test holds
\* as well; for the long at 50 with profit_target 15 the price 66 does so
\* without time scaling and in the second half of the game, while in the first
\* half with time scaling (target 19) the position stays open.
C15_ProfitAtCurrentTarget ==
    /\ Checked.checked =>
          LET gain == Gain(Checked, Checked.price)
              target == CalculateDynamicTarget(bot, bot.profit_target, Checked)
          IN  ClosedAs("PROFIT") <=> gain >= target
    /\ ProfitScenario =>
          IF bot.enable_time_scaling /\ Checked.quarter = 1
          THEN StillHeld ELSE ClosedAs("PROFIT")

\* The long at 50 has been closed with PROFIT at 66.
C15_Witness == ProfitScenario /\ ClosedAs("PROFIT")

\* The long at 50 is held after a tick at 66.
C15_WitnessHeld == ProfitScenario /\ StillHeld

\* A tick met the target and the stop test at once and closed with PROFIT.
C15_WitnessPrecedence ==
    /\ Checked.checked /\ ClosedAs("PROFIT")
    /\ Checked.side = "long" /\ Checked.price <= Checked.avg_entry_price

(***************************************************************************)
(* C16.  The momentum entry signal.  hist.given is the tick just handled   *)
(* and the engine's bankroll and flatness before it.                       *)
(***************************************************************************)
\* The threshold the momentum is compared with.
RequiredThreshold ==
    IF bot.enable_game_context /\ MarketSentiment(bot) = "fade"
    THEN bot.momentum_threshold + 2 ELSE bot.momentum_threshold

\* The latest buffered price less the price two ticks earlier.
MomentumNow ==
    bot.price_history[Len(bot.price_history)] - bot.price_history[Len(bot.price_history) - 2]

\* A flat engine with bankroll > 1 has handled a tick with three prices buffered.
EntryCase ==
    /\ hist.given.flat
    /\ hist.given.bankroll > 100
    /\ hist.given.tick.home_price # 0
    /\ Len(bot.price_history) >= 3

\* The position opened by the tick given: side, price per contract, size, cost.
OpenedAt(side, unit) ==
    LET contracts == TruncDiv(hist.given.bankroll * bot.position_size_pct, 100 * unit)
    IN  /\ bot.position.side = side
        /\ bot.position.entry_price = hist.given.tick.home_price
        /\ bot.position.entry_tick = hist.given.tick.tick
        /\ bot.position.contracts = contracts
        /\ bot.position.total_cost = contracts * unit
        /\ bot.bankroll = hist.given.bankroll - contracts * unit

\* C16 as stated: the signal alone opens the position.
C16_SignalOpens ==
    EntryCase =>
        LET price == hist.given.tick.home_price
        IN  /\ MomentumNow >= RequiredThreshold => OpenedAt("long", price)
            /\ MomentumNow <= -RequiredThreshold => OpenedAt("short", 100 - price)
            /\ MomentumNow < RequiredThreshold /\ MomentumNow > -RequiredThreshold
                  => ~HasPosition(bot)

\* The tick passes the filters of _check_entry: a price in [10, 90] and, with
\* game context, at least 300 s left.
PassesFilters ==
    /\ hist.given.tick.home_price >= 10
    /\ hist.given.tick.home_price <= 90
    /\ bot.enable_game_context =>
          CalculateTimeRemaining(hist.given.tick.quarter, hist.given.tick.clock) >= 300

\* At least one contract can be bought at the given price per contract.
Affordable(unit) == TruncDiv(hist.given.bankroll * bot.position_size_pct, 100 * unit) >= 1

\* C16 amended: for a flat engine with bankroll > 1 and a tick that passes the
\* filters, momentum is the latest buffered price less the price two ticks
\* earlier; momentum >= the required threshold opens a long at the price,
\* momentum <= -threshold a short at 100 - price, when a contract is affordable;
\* in every other case, and on a tick that does not pass, the engine stays flat.
C16_FilteredSignalOpens ==
    /\ EntryCase =>
        LET price == hist.given.tick.home_price
            long == MomentumNow >= RequiredThreshold /\ Affordable(price)
            short == MomentumNow <= -RequiredThreshold /\ Affordable(100 - price)
        IN  /\ PassesFilters /\ long => OpenedAt("long", price)
            /\ PassesFilters /\ short => OpenedAt("short", 100 - price)
            /\ ~(PassesFilters /\ (long \/ short)) => ~HasPosition(bot)
    /\ hist.given.flat /\ Len(bot.price_history) < 3 => ~HasPosition(bot)

\* The prices 50, 50, 59 have opened a long at 59.
C16_Witness ==
    /\ EntryCase
    /\ bot.price_history = <<50, 50, 59>>
    /\ OpenedAt("long", 59)

\* A short has been opened at 100 - price.
C16_WitnessShort == EntryCase /\ bot.position.side = "short" /\ OpenedAt("short", 50)

\* A momentum of 9 has not opened a position where 10 is required.
C16_WitnessFade ==
    EntryCase /\ PassesFilters /\ MomentumNow = 9 /\ RequiredThreshold = 10 /\ ~HasPosition(bot)

(***************************************************************************)
(* C17.  With time scaling enabled, _calculate_dynamic_stop returns an     *)
(* integer from 3 to 20 and _calculate_dynamic_target one from 5 to 30,    *)
(* whatever the base value, the multipliers, the quarter and the clock     *)
(* text, malformed texts included.                                         *)
(***************************************************************************)
C17_DynamicExitsBounded ==
    calc.kind = "exits" /\ calc.done /\ calc.enable_time_scaling
        => calc.stop \in 3..20 /\ calc.target \in 5..30

\* A base of 100 under a malformed clock text has been cut to 20 and to 30.
C17_Witness ==
    /\ calc.kind = "exits" /\ calc.done /\ calc.enable_time_scaling
    /\ calc.clock = <<"a", "b", "c">> /\ calc.base = 100 /\ calc.early10 = 15
    /\ calc.stop = 20 /\ calc.target = 30

\* A negative base has been raised to 3 and to 5.
C17_WitnessLow ==
    /\ calc.kind = "exits" /\ calc.done /\ calc.enable_time_scaling
    /\ calc.base < 0 /\ calc.stop = 3 /\ calc.target = 5

(***************************************************************************)
(* C18.  Reference values of _calculate_time_remaining.                    *)
(***************************************************************************)
TimeDone == calc.kind = "time" /\ calc.done

\* C18 as stated: 3600 for quarter 0 and 0 for quarter 5 whatever the clock,
\* 0 for quarter 4 at "00:00", 2700 for quarter 1 at "15:00".
C18_ReferenceValues ==
    TimeDone =>
        /\ calc.quarter = 0 => calc.time_remaining = 3600
        /\ calc.quarter = 5 => calc.time_remaining = 0
        /\ calc.quarter = 4 /\ calc.clock = <<"0", "0", ":", "0", "0">>
              => calc.time_remaining = 0
        /\ calc.quarter = 1 /\ calc.clock = <<"1", "5", ":", "0", "0">>
              => calc.time_remaining = 2700

\* C18 amended: the same, with 3600 for quarter 1 at "15:00" (three quarters
\* after the first and a full quarter on the clock).
C18_ReferenceValuesFullGame ==
    TimeDone =>
        /\ calc.quarter = 0 => calc.time_remaining = 3600
        /\ calc.quarter = 5 => calc.time_remaining = 0
        /\ calc.quarter = 4 /\ calc.clock = <<"0", "0", ":", "0", "0">>
              => calc.time_remaining = 0
        /\ calc.quarter = 1 /\ calc.clock = <<"1", "5", ":", "0", "0">>
              => calc.time_remaining = 3600

\* Quarter 1 at "15:00" has been evaluated.
C18_Witness ==
    TimeDone /\ calc.quarter = 1 /\ calc.clock = <<"1", "5", ":", "0", "0">>
             /\ calc.time_remaining = 3600

\* Quarter 4 at "00:00" has been evaluated.
C18_WitnessEnd ==
    TimeDone /\ calc.quarter = 4 /\ calc.clock = <<"0", "0", ":", "0", "0">>
             /\ calc.time_remaining = 0

(***************************************************************************)
(* C19.  _calculate_time_remaining gives a value from 0 to 3600 for every  *)
(* quarter and every clock text; for quarters 1 to 4 it is                 *)
(* (4 - quarter) * 900 + clock seconds cut to that range, where the clock  *)
(* seconds of a text MM:SS are MM * 60 + SS, those of a text of digits are *)
(* its value, and those of a text that cannot be read are 900.             *)
(***************************************************************************)
\* Two digits, a colon, two digits.
IsMinSec(text) ==
    /\ Len(text) = 5
    /\ text[3] = ":"
    /\ \A i \in {1, 2, 4, 5} : text[i] \in Digits

MinSecSeconds(text) ==
    (10 * DigitVal(text[1]) + DigitVal(text[2])) * 60
        + 10 * DigitVal(text[4]) + DigitVal(text[5])

\* One or more digits.
IsBareSeconds(text) == text # <<>> /\ \A i \in 1..Len(text) : text[i] \in Digits

\* Texts that are neither minutes and seconds nor a number.
UnreadableClocks ==
    {<<>>, <<" ">>, <<":">>, <<"-">>, <<".">>, <<"a", "b", "c">>,
     <<"1", "2", ":", "x", "x">>, <<"1", "2", ":">>, <<":", "5">>, <<"5", ":">>,
     <<"i", "n", "f">>, <<"n", "a", "n">>, <<"N", "o", "n", "e">>,
     <<"1", "e", "9", "9", "9">>, <<"5", "-", "5">>, <<"0", " ", "5">>}

CutToGame(x) == IF x < 0 THEN 0 ELSE IF x > 3600 THEN 3600 ELSE x

C19_TimeRemainingTotal ==
    TimeDone =>
        /\ calc.time_remaining \in 0..3600
        /\ calc.quarter \in 1..4 =>
              LET before == (4 - calc.quarter) * 900
              IN  /\ IsMinSec(calc.clock) =>
                        calc.time_remaining = CutToGame(before + MinSecSeconds(calc.clock))
                  /\ IsBareSeconds(calc.clock) =>
                        calc.time_remaining = CutToGame(before + DigitsVal(calc.clock, 0))
                  /\ calc.clock \in UnreadableClocks =>
                        calc.time_remaining = CutToGame(before + 900)

\* A malformed text in the second quarter has given 1800 + 900.
C19_Witness ==
    /\ TimeDone /\ calc.quarter = 2
    /\ calc.clock = <<"1", "2", ":", "x", "x">>
    /\ calc.time_remaining = 2700

\* Minutes and seconds, a bare number, and a sum cut to 3600 have been read.
C19_WitnessMinSec ==
    TimeDone /\ calc.quarter = 3 /\ calc.clock = <<"1", "2", ":", "3", "4">>
             /\ calc.time_remaining = 900 + 754

C19_WitnessBare ==
    TimeDone /\ calc.quarter = 4 /\ calc.clock = <<"5", "5">> /\ calc.time_remaining = 55

C19_WitnessCut ==
    TimeDone /\ calc.quarter = 1 /\ calc.clock = <<"9", "9", ":", "9", "9">>
             /\ calc.time_remaining = 3600

(***************************************************************************)
(* C20.  The size of the addition that follows dca_count earlier ones is   *)
(* starting_bankroll * position_size_pct * 0.75 ^ (dca_count + 1),         *)
(* whatever the bankroll has become.  Sizes are in cents, as the fraction  *)
(* num / den, and compared in sixteenths of a cent; position_size_pct is   *)
(* in percent.  From a starting bankroll of 1000 dollars at 50 % the first *)
(* size is 375 dollars, the second 281.25 dollars.                         *)
(***************************************************************************)
C20_DcaSizeGeometric ==
    calc.kind = "dca" /\ calc.done =>
        LET k == calc.dca_count + 1
            base16 == (calc.starting_bankroll * calc.position_size_pct * 16) \div 100
        IN  /\ (calc.num * 16) % calc.den = 0
            /\ ((calc.num * 16) \div calc.den) * Pow(4, k) = base16 * Pow(3, k)
            /\ calc.starting_bankroll = 100000 /\ calc.position_size_pct = 50 =>
                  /\ calc.dca_count = 0 => calc.num = 37500 * calc.den
                  /\ calc.dca_count = 1 => calc.num = 28125 * calc.den

\* The second addition has been sized at 281.25 dollars with 250 dollars left.
C20_Witness ==
    /\ calc.kind = "dca" /\ calc.done
    /\ calc.starting_bankroll = 100000 /\ calc.position_size_pct = 50
    /\ calc.bankroll = 25000 /\ calc.dca_count = 1
    /\ calc.num = 28125 * calc.den

\* The first addition has been sized at 375 dollars.
C20_WitnessFirst ==
    /\ calc.kind = "dca" /\ calc.done
    /\ calc.starting_bankroll = 100000 /\ calc.position_size_pct = 50
    /\ calc.bankroll = 50000 /\ calc.dca_count = 0
    /\ calc.num = 37500 * calc.den

(***************************************************************************)
(* C21.  The total-risk limit of DCA.  hist.given is what the engine held  *)
(* when the tick just handled came; the addition that tick offers is       *)
(* floor(dca_size / unit) contracts at unit cents each.                    *)
(***************************************************************************)
\* The position held when the tick came is still held.
KeptPosition ==
    /\ hist.given.position.side # "none"
    /\ HasPosition(bot)
    /\ bot.position.opened = hist.given.position.opened

GivenUnit ==
    IF hist.given.position.side = "long" THEN hist.given.tick.home_price
    ELSE 100 - hist.given.tick.home_price

\* floor(starting_bankroll * position_size_pct * 0.75 ^ (dca_count + 1) / unit * 100)
OfferedContracts ==
    (bot.starting_bankroll * bot.position_size_pct * Pow(3, hist.given.position.dca_count + 1))
        \div (100 * Pow(4, hist.given.position.dca_count + 1) * GivenUnit)

OfferedCost == OfferedContracts * GivenUnit

\* The tick just handled added to the position.
DcaAccepted ==
    KeptPosition /\ bot.position.dca_count = hist.given.position.dca_count + 1

OverCap(total_cost) == 100 * total_cost > bot.starting_bankroll * DcaMaxTotalRiskPct

\* Nothing of the position, the bankroll or the events has changed but the
\* watermark.
NothingAdded ==
    /\ bot.position.contracts = hist.given.position.contracts
    /\ bot.position.total_cost = hist.given.position.total_cost
    /\ bot.position.cost = hist.given.position.cost
    /\ bot.position.avg_entry_price = hist.given.position.avg_entry_price
    /\ bot.position.dca_count = hist.given.position.dca_count
    /\ bot.position.dca_history = hist.given.position.dca_history
    /\ bot.bankroll = hist.given.bankroll
    /\ Len(events) = hist.given.n_events

\* C21: after an accepted addition total_cost is at most starting_bankroll *
\* dca_max_total_risk_pct; an addition that would exceed that, that costs more
\* than the bankroll or that buys no contract changes nothing and emits nothing.
C21_DcaRiskCap ==
    /\ DcaAccepted => ~OverCap(bot.position.total_cost)
    /\ (KeptPosition /\ GivenUnit > 0
          /\ (\/ OverCap(hist.given.position.total_cost + OfferedCost)
              \/ OfferedCost > hist.given.bankroll
              \/ OfferedContracts < 1))
        => NothingAdded

\* An addition has been accepted.
C21_Witness == DcaAccepted /\ bot.position.dca_count = 2

GivenLoss ==
    IF hist.given.position.side = "long"
    THEN hist.given.position.avg_entry_price - hist.given.tick.home_price
    ELSE hist.given.tick.home_price - hist.given.position.avg_entry_price

\* The price had moved against the position by the trigger and the addition
\* would have exceeded the limit.
C21_WitnessCap ==
    /\ KeptPosition /\ GivenLoss >= DcaTriggerCents
    /\ OfferedContracts >= 1
    /\ OverCap(hist.given.position.total_cost + OfferedCost)

\* ... and the addition cost more than the bankroll, the limit being kept.
C21_WitnessBankroll ==
    /\ KeptPosition /\ GivenLoss >= DcaTriggerCents
    /\ ~OverCap(hist.given.position.total_cost + OfferedCost)
    /\ OfferedCost > hist.given.bankroll

\* ... and the addition bought no contract.
C21_WitnessNoContract ==
    /\ KeptPosition /\ GivenLoss >= DcaTriggerCents
    /\ hist.given.position.dca_count < DcaMaxAdditions
    /\ OfferedContracts < 1

(***************************************************************************)
(* C22.  The position invariant.  A fill is the entry or one record of     *)
(* dca_history; it costs its contracts times the price per contract, the   *)
(* home price for a long and 100 less the home price for a short.          *)
(***************************************************************************)
UnitAt(side, price) == IF side = "long" THEN price ELSE 100 - price

RECURSIVE SumContracts(_)
SumContracts(fills) ==
    IF fills = <<>> THEN 0 ELSE Head(fills).contracts + SumContracts(Tail(fills))

RECURSIVE SumFillCost(_, _)
SumFillCost(fills, side) ==
    IF fills = <<>> THEN 0
    ELSE Head(fills).contracts * UnitAt(side, Head(fills).price)
            + SumFillCost(Tail(fills), side)

\* The cost of all fills of the position: the entry, then the additions.
AllFillsCost(pos) ==
    (pos.contracts - SumContracts(pos.dca_history)) * UnitAt(pos.side, pos.entry_price)
        + SumFillCost(pos.dca_history, pos.side)

\* C22: an open position has at least one contract, at most dca_max_additions
\* additions, as many as dca_history has records, and a total_cost that is the
\* sum over its fills of contracts times price per contract.
C22_PositionInvariant ==
    HasPosition(bot) =>
        /\ bot.position.contracts >= 1
        /\ bot.position.dca_count <= DcaMaxAdditions
        /\ bot.position.dca_count = Len(bot.position.dca_history)
        /\ bot.position.total_cost = AllFillsCost(bot.position)

\* A position with two additions is held by an engine resumed from storage.
C22_Witness ==
    /\ HasPosition(bot) /\ hist.restarts > 0
    /\ bot.position.dca_count >= 1

\* The position has as many additions as are allowed.
C22_WitnessFull == HasPosition(bot) /\ bot.position.dca_count = DcaMaxAdditions

(***************************************************************************)
(* C23.  A top-up that fails.                                              *)
(***************************************************************************)
\* The step is a top_up call, run to its end.
TopUpStep == hist'.topups = hist.topups + 1

\* C23: top_up on an engine with no user fails for want of a wallet, top_up of
\* more than the user's balance fails for want of funds, and a top_up that
\* fails in either way leaves the bankroll, the position, the user's balance,
\* the wallet transactions and the events as they were.
C23_FailedTopUpChangesNothing ==
    [][TopUpStep =>
          /\ bot.user_id = 0 => hist'.topup_error = "no_user"
          /\ (bot.user_id # 0 /\ db.current_balance < hist'.topup_amount)
                => hist'.topup_error = "insufficient"
          /\ hist'.topup_error # "" =>
                /\ bot'.bankroll = bot.bankroll
                /\ bot'.position = bot.position
                /\ db'.current_balance = db.current_balance
                /\ db'.wallet_transactions = db.wallet_transactions
                /\ events' = events]_vars

\* A top-up has failed for want of funds while a position was held.
C23_Witness == hist.topup_error = "insufficient" /\ HasPosition(bot)

\* A top-up has failed on an engine with no user.
C23_WitnessNoUser == hist.topup_error = "no_user" /\ bot.user_id = 0

\* A top-up has been paid.
C23_WitnessPaid == hist.topups > 0 /\ hist.topup_error = "" /\ hist.topped_up > 0

(***************************************************************************)
(* C24.  The aggregate counters across a resume.                           *)
(***************************************************************************)
\* The step is a restart of the process, with the engine resumed.
RestartStep == hist'.restarts = hist.restarts + 1

\* The persisted trades of d that have been closed.
ClosedOf(d) == {j \in 1..Len(d.trades) : d.trades[j].closed}

\* C24: the resumed engine holds the total_trades, wins, losses and total_pnl
\* the original engine held, total_trades being the number of closed trades,
\* and a resumed engine with no position has counted each closed trade once.
C24_ResumeKeepsCounters ==
    [][/\ RestartStep =>
            /\ bot'.total_trades = bot.total_trades
            /\ bot'.wins = bot.wins
            /\ bot'.losses = bot.losses
            /\ bot'.total_pnl = bot.total_pnl
            /\ bot'.total_trades = Cardinality(ClosedOf(db))
       /\ (hist'.restarts > 0 /\ ~HasPosition(bot'))
            => bot'.total_trades = Cardinality(ClosedOf(db'))]_vars

(***************************************************************************)
(* C25.  The starting bankroll.                                            *)
(***************************************************************************)
\* The step is an update_config call.
ConfigStep == hist'.config_updates = hist.config_updates + 1

\* C25: no step of the engine (a tick, a top-up, a stop, a config update, a
\* resume) changes starting_bankroll, and a config update, with a bankroll key
\* or without, leaves bankroll unchanged as well.
C25_StartingBankrollFixed ==
    [][/\ bot'.starting_bankroll = bot.starting_bankroll
       /\ ConfigStep => bot'.bankroll = bot.bankroll]_vars

\* A config update carrying a bankroll key has been applied, a top-up paid and
\* a trade made, so that bankroll has moved away from starting_bankroll.
C25_Witness ==
    /\ hist.config_updates > 0 /\ bot.profit_target = 10
    /\ hist.topped_up > 0
    /\ hist.opened > 0
    /\ bot.bankroll # bot.starting_bankroll

\* The engine has been stopped after a paid top-up.
C25_WitnessStopped == hist.stops > 0 /\ hist.topped_up > 0 /\ ~bot.is_active

(***************************************************************************)
(* C26.  What every accepted entry has met.                                *)
(***************************************************************************)
\* The tick given has opened the position held.
EnteredNow ==
    /\ hist.given.tick.home_price # 0
    /\ HasPosition(bot)
    /\ bot.position.entry_tick = hist.given.tick.tick

\* The threshold spec and code require of the momentum: two more than
\* momentum_threshold with game context when the opening home price is at
\* least favorite_fade_threshold.
ThresholdRequired ==
    IF bot.enable_game_context /\ bot.opening_home_price >= FavoriteFadeThreshold
    THEN bot.momentum_threshold + 2 ELSE bot.momentum_threshold

\* C26: a tick opens a position only if the engine was flat with bankroll > 1
\* when it came, three prices are buffered, the home price is from 10 to 90,
\* the momentum is at least the required threshold towards the side taken,
\* and, with game context, at least 300 s of the game remain.
C26_EntryPreconditions ==
    EnteredNow =>
        /\ hist.given.flat
        /\ hist.given.bankroll > 100
        /\ Len(bot.price_history) >= 3
        /\ hist.given.tick.home_price >= 10
        /\ hist.given.tick.home_price <= 90
        /\ bot.position.side = "long" => MomentumNow >= ThresholdRequired
        /\ bot.position.side = "short" => MomentumNow <= -ThresholdRequired
        /\ bot.enable_game_context =>
              CalculateTimeRemaining(hist.given.tick.quarter, hist.given.tick.clock) >= 300

\* An entry accepted under the raised threshold of a faded favourite.
C26_Witness ==
    /\ EnteredNow
    /\ bot.enable_game_context
    /\ ThresholdRequired = bot.momentum_threshold + 2

\* An entry accepted under the base threshold, and met exactly.
C26_WitnessBase ==
    /\ EnteredNow
    /\ ThresholdRequired = bot.momentum_threshold
    /\ MomentumNow \in {bot.momentum_threshold, -bot.momentum_threshold}

(***************************************************************************)
(* C27.  Size and bookkeeping of an entry.                                 *)
(***************************************************************************)
\* The price per contract on the side the momentum points to, 0 for no signal.
SignalUnit ==
    IF MomentumNow >= RequiredThreshold THEN hist.given.tick.home_price
    ELSE IF MomentumNow <= -RequiredThreshold THEN 100 - hist.given.tick.home_price
    ELSE 0

\* floor(bankroll * position_size_pct / unit * 100), bankroll in cents and
\* position_size_pct in percent.
SizedContracts(unit) == (hist.given.bankroll * bot.position_size_pct) \div (100 * unit)

\* The tick given met the preconditions of an entry but bought no contract.
EntrySkipped ==
    /\ EntryCase /\ PassesFilters /\ SignalUnit # 0
    /\ SizedContracts(SignalUnit) < 1

C27_WitnessSkipped == EntrySkipped

\* An entry whose size was truncated: the cost is below bankroll * position_size_pct.
C27_WitnessTruncated ==
    EnteredNow /\ 100 * bot.position.cost < hist.given.bankroll * bot.position_size_pct

(***************************************************************************)
(* C28.  The order of the checks within one tick.                          *)
(***************************************************************************)
\* The step is one on_tick call, run to its end.
TickStep == hist'.n_ticks = hist.n_ticks + 1

\* What the step has done: positions opened, positions closed, DCA additions.
OpenedInStep == hist'.opened - hist.opened
ClosedInStep == Len(hist'.exits) - Len(hist.exits)
AddedInStep == hist'.dca_fills - hist.dca_fills

\* C28: a tick opens, closes or adds to a position at most once and does only
\* one of the three, with at most one event; it closes or adds only to the
\* position it found, after the exit check; it adds only when it has not
\* closed; it opens only when it found none, and then makes no exit check; and
\* a tick that closes a position leaves the engine flat.
C28_TickOrdering ==
    [][TickStep =>
          /\ OpenedInStep + ClosedInStep + AddedInStep <= 1
          /\ Len(events') <= Len(events) + 1
          /\ ClosedInStep = 1 =>
                /\ HasPosition(bot) /\ ~HasPosition(bot')
                /\ hist'.exit_check.checked
                /\ hist'.exit_check.opened = bot.position.opened
          /\ AddedInStep = 1 =>
                /\ HasPosition(bot) /\ HasPosition(bot')
                /\ bot'.position.opened = bot.position.opened
                /\ hist'.exit_check.checked
          /\ OpenedInStep = 1 =>
                /\ ~HasPosition(bot) /\ HasPosition(bot')
                /\ bot'.position.dca_count = 0
                /\ bot'.position.entry_tick = hist'.given.tick.tick
                /\ ~hist'.exit_check.checked
          /\ hist'.exit_check.checked <=> (HasPosition(bot) /\ ~TickIgnored(bot, hist'.given.tick))]_vars

\* A position has been closed by a tick whose price and momentum gave an entry
\* signal, and the engine is flat.
C28_Witness ==
    /\ hist.exits # <<>>
    /\ hist.exit_check.checked
    /\ ~hist.given.flat
    /\ ~HasPosition(bot)
    /\ bot.bankroll > 100
    /\ PassesFilters /\ SignalUnit # 0 /\ SizedContracts(SignalUnit) >= 1

\* A tick has added to the position it found.
C28_WitnessDca ==
    /\ hist.dca_fills > 0 /\ hist.exit_check.checked
    /\ HasPosition(bot) /\ bot.position.dca_count > hist.given.position.dca_count

(***************************************************************************)
(* C29.  The user's funds at a close.                                      *)
(***************************************************************************)
\* C29: every step that closes a position adjusts the user's balance: the
\* balance is written or a wallet transaction is recorded.
C29_ExitSettlesUser ==
    [][Len(hist'.exits) > Len(hist.exits) =>
          \/ db'.current_balance # db.current_balance
          \/ db'.wallet_transactions # db.wallet_transactions]_vars

(***************************************************************************)
(* C30.  The average price after a DCA addition.                           *)
(***************************************************************************)
\* The sum over the fills of the position, the entry and then the additions,
\* of contracts times home price: over the contracts it is the size-weighted
\* average price of a long and, for a short, 100 less the size-weighted
\* average price of the no side.
RECURSIVE SumFillPrice(_)
SumFillPrice(fills) ==
    IF fills = <<>> THEN 0
    ELSE Head(fills).contracts * Head(fills).price + SumFillPrice(Tail(fills))

AllFillsPrice(pos) ==
    (pos.contracts - SumContracts(pos.dca_history)) * pos.entry_price
        + SumFillPrice(pos.dca_history)

\* The addition just accepted is the last fill: contracts, total_cost,
\* dca_count and bankroll have moved by it.
DcaBooked ==
    LET old == hist.given.position
        pos == bot.position
        fill == Last(pos.dca_history)
    IN  /\ pos.dca_history = Append(old.dca_history, fill)
        /\ fill.price = hist.given.tick.home_price
        /\ fill.contracts >= 1
        /\ fill.cost = fill.contracts * GivenUnit
        /\ pos.contracts = old.contracts + fill.contracts
        /\ pos.total_cost = old.total_cost + fill.cost
        /\ pos.dca_count = old.dca_count + 1
        /\ bot.bankroll = hist.given.bankroll - fill.cost

\* a lies between b and c, ends included.
Between(a, b, c) == (b <= a /\ a <= c) \/ (c <= a /\ a <= b)

C30_WitnessLong ==
    DcaAccepted /\ bot.position.side = "long" /\ bot.position.dca_count = 2

(***************************************************************************)
(* C31.  The low-balance warning.                                          *)
(***************************************************************************)
\* The events the step has emitted.
NewEvents == SubSeq(events', Len(events) + 1, Len(events'))

\* The step is an on_tick call that was processed: the engine was active and
\* the tick had a price.
ProcessedTickStep ==
    /\ TickStep
    /\ bot.is_active
    /\ hist'.nodata_flat = hist.nodata_flat
    /\ hist'.nodata_open = hist.nodata_open

\* The engine is flat with a bankroll of at most 1.
LowBalance == ~HasPosition(bot) /\ bot.bankroll <= 100

\* C31: a processed tick that finds the engine flat with bankroll <= 1 opens
\* no position and emits one event, the low-balance warning carrying the
\* bankroll; a processed tick that finds a position or a bankroll > 1 emits
\* no low-balance warning.
C31_LowBalanceWarning ==
    [][ProcessedTickStep =>
          /\ LowBalance =>
                /\ ~HasPosition(bot')
                /\ bot'.bankroll = bot.bankroll
                /\ Len(NewEvents) = 1
                /\ NewEvents[1].type = "live_bot_low_balance"
                /\ NewEvents[1].amount = bot.bankroll
          /\ ~LowBalance =>
                \A i \in 1..Len(NewEvents) : NewEvents[i].type # "live_bot_low_balance"]_vars

\* A warning has been emitted at a bankroll of exactly 1.
C31_Witness ==
    /\ events # <<>> /\ Last(events).type = "live_bot_low_balance"
    /\ ~HasPosition(bot) /\ bot.bankroll = 100

\* A warning has been emitted by an engine that has traded its bankroll away
\* (reached under Spec, where position_size_pct may exceed 100 %).
C31_WitnessTraded ==
    /\ events # <<>> /\ Last(events).type = "live_bot_low_balance"
    /\ ~HasPosition(bot) /\ bot.bankroll <= 100
    /\ hist.exits # <<>>

(***************************************************************************)
(* C32.  The formula of the dynamic stop and target.                       *)
(***************************************************************************)
\* base times the multiplier as a number of 18000ths: the multiplier is
\* early10 / 10 with at least 1800 s left and otherwise
\* 1 + ((1800 - tr) / 1800) * (late10 / 10 - 1).
ScaledTimes18000(base, tr, early10, late10) ==
    IF tr >= 1800 THEN base * early10 * 1800
    ELSE base * (18000 + (1800 - tr) * (late10 - 10))

\* x is n / 18000 truncated toward zero.
IsTruncated(x, n) ==
    IF n >= 0 THEN x * 18000 <= n /\ n < (x + 1) * 18000
    ELSE (x - 1) * 18000 < n /\ n <= x * 18000

C32_WitnessUnscaled ==
    /\ calc.kind = "exits" /\ calc.done /\ ~calc.enable_time_scaling
    /\ calc.base = 100 /\ calc.stop = 100 /\ calc.target = 100

\* Halftime itself takes the early multiplier.
C32_WitnessHalftime ==
    /\ calc.kind = "exits" /\ calc.done /\ calc.enable_time_scaling
    /\ CalculateTimeRemaining(calc.quarter, calc.clock) = 1800
    /\ calc.base = 8 /\ calc.early10 = 15 /\ calc.late10 = 7 /\ calc.stop = 12

(***************************************************************************)
(* C33.  The opening prices.                                               *)
(***************************************************************************)
\* The threshold an entry made by the step had to meet, by the opening home
\* price the engine held before the step.
ThresholdByOpening ==
    IF bot'.enable_game_context /\ bot.opening_home_price >= FavoriteFadeThreshold
    THEN bot'.momentum_threshold + 2 ELSE bot'.momentum_threshold

C33_WitnessFade ==
    /\ HasPosition(bot)
    /\ bot.opening_home_price = 70
    /\ bot.position.entry_price = 40

(***************************************************************************)
(* C34: the bankroll of a freshly constructed engine, ticks and top-ups    *)
(* arriving one after the other.                                           *)
(***************************************************************************)
\* C34: in every reachable state, bankroll = startingBankroll + the sum of the
\* top-up amounts - totalCost of the open position (0 when flat) + the sum over
\* the closed positions of (proceeds - that position's totalCost, averaging-down
\* additions included).
C34_BankrollIdentity ==
    bot.bankroll = bot.starting_bankroll + hist.topped_up - OpenTotalCost + SumNet(hist.exits)

\* A paid top-up, a closed position that had been added to, and a position open.
C34_Witness ==
    /\ hist.topped_up > 0
    /\ \E i \in DOMAIN hist.exits : hist.exits[i].dca_count > 0
    /\ HasPosition(bot)

\* Two top-ups paid and a position closed at a profit.
C34_WitnessProfit ==
    /\ hist.topped_up = 20000
    /\ \E i \in DOMAIN hist.exits : hist.exits[i].proceeds > hist.exits[i].total_cost

(***************************************************************************)
(* C35: the BREAKEVEN tag.                                                 *)
(***************************************************************************)
RuleReasons == {"PROFIT", "STOP"}

\* C35: with breakeven_trigger >= 1, a position closed by a tick is closed with
\* reason PROFIT or STOP, never BREAKEVEN.
C35_NoBreakevenExit ==
    [][TickStep /\ ClosedInStep > 0 /\ bot.breakeven_trigger >= 1
          => Last(hist'.exits).reason \in RuleReasons]_vars

\* A tick has closed, at or below its entry price, a long whose gain had reached
\* the trigger on an earlier tick: the tag is STOP.
C35_Witness ==
    /\ bot.breakeven_trigger >= 1
    /\ hist.exits # <<>>
    /\ Last(hist.exits).by = "tick"
    /\ Last(hist.exits).armed
    /\ Last(hist.exits).side = "long"
    /\ Last(hist.exits).price <= Last(hist.exits).avg_entry_price
    /\ Last(hist.exits).reason = "STOP"

(***************************************************************************)
(* C36: how far the price may stand from the average entry price of a      *)
(* position that a tick has left open.                                     *)
(***************************************************************************)
StopCeiling == 20
TargetCeiling == 30

\* The latest tick was processed and left open the position it found.
CarriedPosition == hist.n_ticks > 0 /\ bot.is_active /\ ~NoData(hist.given.tick) /\ KeptPosition

\* The gain at the price of the latest tick over the average entry price.
LatestGain == Gain(bot.position, hist.given.tick.home_price)

\* C36: after a processed tick that leaves a position open, the gain over
\* avg_entry_price lies strictly between -current_stop and current_target of
\* that tick; with time scaling it lies strictly between -20 and 30.
C36_ExposureBound ==
    CarriedPosition =>
        /\ -CalculateDynamicStop(bot, bot.initial_stop, hist.given.tick) < LatestGain
        /\ LatestGain < CalculateDynamicTarget(bot, bot.profit_target, hist.given.tick)
        /\ bot.enable_time_scaling => -StopCeiling < LatestGain /\ LatestGain < TargetCeiling

\* A position carried with a loss after the tick has added to it.
C36_Witness ==
    /\ CarriedPosition /\ DcaAccepted
    /\ LatestGain < 0

\* A position carried with a gain.
C36_WitnessAhead == CarriedPosition /\ LatestGain > 0

(***************************************************************************)
(* C37: the ticks on which a position is added to.                         *)
(***************************************************************************)
GivenStop == CalculateDynamicStop(bot, bot.initial_stop, hist.given.tick)

GivenTimeRemaining == CalculateTimeRemaining(hist.given.tick.quarter, hist.given.tick.clock)

\* C37: a tick adds to a position only if the price stands against the average
\* entry price by at least dca_trigger_cents and by less than the tick's stop,
\* the position has had fewer than dca_max_additions additions and at least
\* dca_min_time_remaining seconds are left; no tick adds when the trigger is at
\* least the stop; and without enable_dca a position has dca_count 0 and a
\* total_cost equal to its entry cost.
C37_DcaWindow ==
    /\ hist.n_ticks > 0 /\ DcaAccepted
          => /\ bot.enable_dca
             /\ DcaTriggerCents <= GivenLoss /\ GivenLoss < GivenStop
             /\ hist.given.position.dca_count < DcaMaxAdditions
             /\ GivenTimeRemaining >= DcaMinTimeRemaining
    /\ hist.n_ticks > 0 /\ DcaTriggerCents >= GivenStop => ~DcaAccepted
    /\ HasPosition(bot) /\ ~bot.enable_dca
          => bot.position.dca_count = 0 /\ bot.position.total_cost = bot.position.cost

\* A tick has added to a position for the second time.
C37_Witness ==
    /\ hist.n_ticks > 0 /\ DcaAccepted
    /\ bot.position.dca_count = 2

\* Late in the game a tick five cents against the position has left it as it was.
C37_WitnessLate ==
    /\ hist.n_ticks > 0 /\ KeptPosition /\ bot.enable_dca
    /\ GivenLoss = DcaTriggerCents /\ GivenLoss < GivenStop
    /\ GivenTimeRemaining < DcaMinTimeRemaining
    /\ bot.position.dca_count = 0

\* An engine whose stop is below the trigger has carried a position over a tick.
C37_WitnessNarrow ==
    /\ hist.n_ticks > 0 /\ KeptPosition /\ bot.enable_dca
    /\ DcaTriggerCents >= GivenStop

\* An engine without enable_dca has carried a position five cents or more
\* against it over a tick.
C37_WitnessDisabled ==
    /\ hist.n_ticks > 0 /\ KeptPosition /\ ~bot.enable_dca
    /\ GivenLoss >= DcaTriggerCents

(***************************************************************************)
(* C38: the engine fed 100 - p against the engine fed p.                   *)
(***************************************************************************)
OtherSide(side) == IF side = "long" THEN "short" ELSE IF side = "short" THEN "long" ELSE side

\* The two positions are the same but for the side.
MirroredPosition(p, q) ==
    /\ q.side = OtherSide(p.side)
    /\ p.side # "none" =>
          /\ q.contracts = p.contracts
          /\ q.cost = p.cost
          /\ q.total_cost = p.total_cost
          /\ q.dca_count = p.dca_count
          /\ q.entry_tick = p.entry_tick

\* The two closed positions are the same but for the side.
MirroredExit(e, f) ==
    /\ f.side = OtherSide(e.side)
    /\ f.reason = e.reason
    /\ f.pnl = e.pnl
    /\ f.proceeds = e.proceeds
    /\ f.contracts = e.contracts
    /\ f.total_cost = e.total_cost
    /\ f.dca_count = e.dca_count
    /\ f.price = 100 - e.price

\* The same decisions on every tick so far.
MirroredDecisions ==
    /\ mirror.bot.bankroll = bot.bankroll
    /\ MirroredPosition(bot.position, mirror.bot.position)
    /\ mirror.hist.opened = hist.opened
    /\ mirror.hist.dca_fills = hist.dca_fills
    /\ Len(mirror.hist.exits) = Len(hist.exits)
    /\ \A i \in DOMAIN hist.exits :
          i \in DOMAIN mirror.hist.exits => MirroredExit(hist.exits[i], mirror.hist.exits[i])

\* The average entry prices add up to 100.
MirroredAverage ==
    HasPosition(bot) /\ HasPosition(mirror.bot)
        => mirror.bot.position.avg_entry_price = 100 - bot.position.avg_entry_price

\* C38 as stated: the engine fed 100 - p makes the decisions of the engine fed
\* p with the sides swapped - the same contracts, costs, additions, exit ticks,
\* exit reasons, pnl and bankroll - and its avg_entry_price is 100 minus the
\* other's.
C38_MirrorSymmetry == MirroredDecisions /\ MirroredAverage

\* The decisions alone, the average entry prices left aside.
C38_MirrorDecisions == MirroredDecisions

\* What does hold: the two runs mirror each other as long as neither engine has
\* added to a position.
C38_MirrorUntilAddition ==
    hist.dca_fills = 0 /\ mirror.hist.dca_fills = 0 => MirroredDecisions /\ MirroredAverage

\* Both engines have opened and closed a position without an addition.
C38_WitnessNoAddition ==
    /\ hist.dca_fills = 0 /\ mirror.hist.dca_fills = 0
    /\ hist.exits # <<>> /\ mirror.hist.exits # <<>>

(***************************************************************************)
(* C39: the user's balance under concurrent requests.                      *)
(***************************************************************************)
ActiveEngines == {e \in DOMAIN app.engines : app.engines[e].is_active}

\* Every request has returned and every engine has been stopped.
AllStopped == ActiveEngines = {} /\ \A i \in DOMAIN app.calls : app.calls[i].pc = "done"

\* Sum over the engines of final bankroll - allocated bankroll - top-ups.
RECURSIVE EngineGains(_)
EngineGains(engines) ==
    IF engines = <<>> THEN 0
    ELSE Head(engines).bankroll - Head(engines).allocated - Head(engines).topped_up
         + EngineGains(Tail(engines))

\* C39 as stated: under every interleaving of start, top-up and stop requests
\* at most one engine is running for the event ticker, and once all engines are
\* stopped the user's balance is the initial balance plus the sum over the
\* engines of (final bankroll - allocated bankroll - top-ups).
C39_FundsConserved ==
    /\ Cardinality(ActiveEngines) <= 1
    /\ AllStopped => app.balance = UserStartBalance + EngineGains(app.engines)

\* The balance alone.
C39_BalanceConserved ==
    AllStopped => app.balance = UserStartBalance + EngineGains(app.engines)

\* The registry alone.
C39_OneEngine == Cardinality(ActiveEngines) <= 1

=============================================================================
